---- MODULE Spec2Model ----
(***************************************************************************)
(* Model of the retro-newspaper photobooth (Rifqialba/bandung_photobooth). *)
(*                                                                         *)
(* Part 1: the image compositor of src/src/utils/imageProcessor.ts:        *)
(*   drawImageCover, applyPureBlackAndWhite, loadImageSafe and             *)
(*   composeNewspaper, drawing on a small canvas whose pixels are RGBA     *)
(*   tuples.  Geometry is computed in exact rational arithmetic (all       *)
(*   quantities are numerators over a common denominator); the luminance   *)
(*   sum of applyPureBlackAndWhite is computed in IEEE-754 binary64, as    *)
(*   JavaScript does, on 20-bit limbs.                                     *)
(***************************************************************************)
EXTENDS Integers, Sequences, FiniteSets, TLC

VARIABLES
    pc,        \* position of the composeNewspaper call
    loads,     \* per asset: the state of its load and, once loaded, the image
    all,       \* the Promise.all of the three loads
    ctx,       \* the canvas and its 2D context (NoCtx before it exists)
    grainLeft, \* iterations the grain loop still has to run
    grainHits, \* per pixel: the coverages of the grain dots that hit it
    ops,       \* the canvas operations performed so far, in order
    outcome,   \* what the call gave its caller
    probe,     \* the input and result of a pure function under test
    calls,     \* two calls of composeNewspaper in one page: the state of each
    heap,      \* the canvases those two calls have created, in order
    route,        \* the URL the router shows
    mounted,      \* which page component is mounted
    localStorage, \* the browser's store: the value under each key
    session,      \* the useState values of SessionPage
    refs,         \* the useRef values of SessionPage and of useCamera
    camera,       \* the useState values of useCamera
    video,        \* the <video> element the page renders, if any
    streams,      \* the media streams handed out so far: live or stopped
    starts,       \* the calls of startCamera made so far and where each is
    timers,       \* the timeouts and intervals of SessionPage that are pending
    uploads,      \* per file: how far the upload of it has come
    resultPage,   \* the useState values of ResultPage and its pending timers
    composeCalls  \* the calls of composeNewspaper the result page has made

\* The variables of the pages (Part 2 of the model).
appVars ==
    <<route, mounted, localStorage, session, refs, camera, video, streams,
      starts, timers, uploads, resultPage, composeCalls>>

\* The variables of the compositor (Part 1 of the model).
composeVars ==
    <<pc, loads, all, ctx, grainLeft, grainHits, ops, outcome, probe, calls, heap>>

vars == <<composeVars, appVars>>

----------------------------------------------------------------------------
(* Bounds of the model.                                                    *)

\* Photos are MaxImgDim x MaxImgDim pixels at most in the composition runs.
MaxImgDim == 2
\* Iterations of the grain loop (the code runs 1000 on a 2550 x 3300 canvas).
GrainDots == 1
\* Photo and rectangle sides when drawImageCover is checked on its own.
MaxCoverDim == 5
\* Math.random() gives one of the values k / RandomSteps, k < RandomSteps.
RandomSteps == 3
\* Channel values k * GrayStep are tried when one pixel is desaturated.
GrayStep == 17
\* Photo references have MaxSrcLen characters at most.
MaxSrcLen == 52
\* The vignette is tried at the pixels of a grid of VignetteCuts + 1 columns
\* and rows, and at the pixels no more than MidReach from the midpoint.
VignetteCuts == 4
MidReach == 2
\* Calls of startCamera that are followed in one mounting of the session page.
MaxStarts == 2
\* The largest side a video is given when a frame of it is captured.
MaxVideoSide == 3840

----------------------------------------------------------------------------
(* Constants of the program.                                               *)

\* The number of characters of the reference kept in a load error (line 81).
MessagePrefixLen == 50
\* The number of dots the grain loop plots (line 142).
GrainCount == 1000

----------------------------------------------------------------------------
(* Small helpers.                                                          *)

Min(a, b) == IF a <= b THEN a ELSE b
Max(a, b) == IF a >= b THEN a ELSE b
Clamp(v, lo, hi) == Max(lo, Min(hi, v))

\* The layout configuration imported from ./layoutConfig, scaled to a canvas
\* of 4 x 6 pixels: both rectangles lie inside the canvas, they are disjoint,
\* the main one above the secondary one, with a margin on every side.
newspaperLayout ==
    [ canvas         |-> [width |-> 4, height |-> 6],
      photoMain      |-> [x |-> 1, y |-> 1, width |-> 2, height |-> 2],
      photoSecondary |-> [x |-> 1, y |-> 4, width |-> 2, height |-> 1] ]

Pixels ==
    (0 .. newspaperLayout.canvas.width - 1) \X (0 .. newspaperLayout.canvas.height - 1)

RectPixels(r) ==
    { p \in Pixels : /\ r.x <= p[1] /\ p[1] < r.x + r.width
                     /\ r.y <= p[2] /\ p[2] < r.y + r.height }

Assets == {"frame", "photo1", "photo2"}

\* What a decoded image holds: a colour per source pixel.  The colours are
\* RGBA; they include the pure colours, a colour whose luminance sum is an
\* exact half (0, 36, 12), white and a half-transparent colour.
Palette ==
    << <<255, 0, 0, 255>>, <<0, 255, 0, 255>>, <<0, 36, 12, 255>>,
       <<255, 255, 255, 255>>, <<10, 20, 200, 128>>, <<200, 100, 50, 255>> >>

AssetOffset(a) == CASE a = "frame" -> 0 [] a = "photo1" -> 1 [] OTHER -> 2

ImagePixel(img, sx, sy) ==
    Palette[((AssetOffset(img.asset) + sx + img.width * sy) % Len(Palette)) + 1]

----------------------------------------------------------------------------
(* The 2D context: the pixels of its canvas and its drawing state.         *)

NoCtx == [exists |-> FALSE]

\* NewContext from getContext("2d") without {alpha: false}: the canvas has
\* an alpha channel and starts transparent.
NewContext_WithAlpha ==
    [ exists      |-> TRUE,
      width       |-> newspaperLayout.canvas.width,
      height      |-> newspaperLayout.canvas.height,
      pixels      |-> [p \in Pixels |-> <<0, 0, 0, 0>>],
      clip        |-> Pixels,
      globalAlpha |-> 100,
      fillStyle   |-> "#000000",
      op          |-> "source-over",
      stack       |-> << >> ]

\* NewContext with the canvas sized after the template image instead of the
\* layout (lines 108-109 reading frame.width and frame.height).
NewContext_FrameSized ==
    [ exists      |-> TRUE,
      width       |-> loads["frame"].width,
      height      |-> loads["frame"].height,
      pixels      |-> [p \in Pixels |-> <<0, 0, 0, 255>>],
      clip        |-> Pixels,
      globalAlpha |-> 100,
      fillStyle   |-> "#000000",
      op          |-> "source-over",
      stack       |-> << >> ]

\* document.createElement("canvas") with getContext("2d", {alpha: false}),
\* then canvas.width / canvas.height set: an opaque black canvas.
NewContext ==
    [ exists      |-> TRUE,
      width       |-> newspaperLayout.canvas.width,
      height      |-> newspaperLayout.canvas.height,
      pixels      |-> [p \in Pixels |-> <<0, 0, 0, 255>>],
      clip        |-> Pixels,
      globalAlpha |-> 100,                 \* in hundredths
      fillStyle   |-> "#000000",
      op          |-> "source-over",
      stack       |-> << >> ]

CtxSave(g) ==
    [g EXCEPT !.stack = Append(@, [clip |-> g.clip, globalAlpha |-> g.globalAlpha,
                                   fillStyle |-> g.fillStyle, op |-> g.op])]

CtxRestore(g) ==
    IF g.stack = << >> THEN g
    ELSE LET s == g.stack[Len(g.stack)]
         IN  [g EXCEPT !.clip = s.clip, !.globalAlpha = s.globalAlpha,
                       !.fillStyle = s.fillStyle, !.op = s.op,
                       !.stack = SubSeq(g.stack, 1, Len(g.stack) - 1)]

\* beginPath(); rect(x, y, w, h); clip(): the clip becomes its intersection
\* with the rectangle.
CtxClipRect(g, x, y, w, h) ==
    [g EXCEPT !.clip = @ \cap RectPixels([x |-> x, y |-> y, width |-> w, height |-> h])]

\* Length, in 1/den pixels, of the part of pixel column (or row) k that the
\* interval [lo/den, hi/den) covers.
Overlap(k, lo, hi, den) == Max(0, Min((k + 1) * den, hi) - Max(k * den, lo))

\* The source column (or row) shown at the centre of pixel k when n source
\* pixels are stretched over [lo/den, (lo + size)/den).
SampleIndex(k, lo, size, n, den) ==
    Clamp((((2 * k + 1) * den - 2 * lo) * n) \div (2 * size), 0, n - 1)

\* Source-over compositing of the colour rgb at opacity aNum/aDen onto a
\* pixel of the canvas.  The canvas has no alpha channel, its pixels are
\* opaque: the alpha of the result, aNum/aDen of full alpha over the alpha
\* of the pixel, is 255 again.
Blend(dst, rgb, aNum, aDen) ==
    LET ch(i) == (rgb[i] * aNum + dst[i] * (aDen - aNum) + aDen \div 2) \div aDen
    IN  <<ch(1), ch(2), ch(3),
          (255 * aNum + dst[4] * (aDen - aNum) + aDen \div 2) \div aDen>>

\* ctx.drawImage(img, left/den, top/den, dw/den, dh/den): the image is
\* stretched over the destination area and composited inside the clip; a
\* pixel the area covers only partly is blended at that coverage.
CtxDrawImage(g, img, left, top, dw, dh, den) ==
    [g EXCEPT !.pixels =
        [p \in Pixels |->
            LET cx == Overlap(p[1], left, left + dw, den)
                cy == Overlap(p[2], top, top + dh, den)
            IN  IF p \in g.clip /\ cx * cy > 0
                THEN LET src == ImagePixel(img,
                                           SampleIndex(p[1], left, dw, img.width, den),
                                           SampleIndex(p[2], top, dh, img.height, den))
                     IN  Blend(g.pixels[p], src,
                               src[4] * g.globalAlpha * cx * cy, 255 * 100 * den * den)
                ELSE g.pixels[p]]]

\* ctx.fillRect(left/den, top/den, w/den, h/den) with a black fillStyle under
\* source-over: every pixel of the clip the rectangle touches is blended
\* with black at globalAlpha times its coverage.
CtxFillRect(g, left, top, w, h, den) ==
    [g EXCEPT !.pixels =
        [p \in Pixels |->
            LET cx == Overlap(p[1], left, left + w, den)
                cy == Overlap(p[2], top, top + h, den)
            IN  IF p \in g.clip /\ cx * cy > 0
                THEN Blend(g.pixels[p], <<0, 0, 0>>,
                           g.globalAlpha * cx * cy, 100 * den * den)
                ELSE g.pixels[p]]]

----------------------------------------------------------------------------
(* drawImageCover (imageProcessor.ts 3-45).                                *)

\* CoverFit with the comparison of line 19 turned round: a contain-fit.
CoverFit_Contain(iw, ih, w, h) ==
    IF iw * h < w * ih
    THEN [ den |-> 2 * ih, branch |-> "wider",
           drawWidth |-> 2 * iw * h, drawHeight |-> 2 * ih * h,
           offsetX |-> iw * h - w * ih, offsetY |-> 0 ]
    ELSE [ den |-> 2 * iw, branch |-> "taller",
           drawWidth |-> 2 * iw * w, drawHeight |-> 2 * ih * w,
           offsetX |-> 0, offsetY |-> ih * w - h * iw ]

\* CoverFit without the division by 2 of lines 23 and 28.
CoverFit_NoCentering(iw, ih, w, h) ==
    IF iw * h > w * ih
    THEN [ den |-> 2 * ih, branch |-> "wider",
           drawWidth |-> 2 * iw * h, drawHeight |-> 2 * ih * h,
           offsetX |-> 2 * (iw * h - w * ih), offsetY |-> 0 ]
    ELSE [ den |-> 2 * iw, branch |-> "taller",
           drawWidth |-> 2 * iw * w, drawHeight |-> 2 * ih * w,
           offsetX |-> 0, offsetY |-> 2 * (ih * w - h * iw) ]

\* Lines 11-29.  The result is in exact rationals over the denominator den:
\* drawWidth = iw * (h / ih) has denominator ih and the halved offset 2 * ih
\* (2 * iw in the other branch).  imgRatio > boxRatio is iw / ih > w / h.
CoverFit(iw, ih, w, h) ==
    IF iw * h > w * ih
    THEN [ den |-> 2 * ih, branch |-> "wider",
           drawWidth |-> 2 * iw * h, drawHeight |-> 2 * ih * h,
           offsetX |-> iw * h - w * ih, offsetY |-> 0 ]
    ELSE [ den |-> 2 * iw, branch |-> "taller",
           drawWidth |-> 2 * iw * w, drawHeight |-> 2 * ih * w,
           offsetX |-> 0, offsetY |-> ih * w - h * iw ]

\* Lines 36-42: the destination area handed to drawImage, over den.
CoverDest(iw, ih, x, y, w, h) ==
    LET f == CoverFit(iw, ih, w, h)
    IN  [ den |-> f.den, branch |-> f.branch,
          left |-> x * f.den - f.offsetX, top |-> y * f.den - f.offsetY,
          width |-> f.drawWidth, height |-> f.drawHeight ]

\* drawImageCover without lines 32-34: nothing clips the draw.
drawImageCover_NoClip(g, img, x, y, w, h) ==
    LET d == CoverDest(img.width, img.height, x, y, w, h)
    IN  CtxRestore(CtxDrawImage(CtxSave(g), img, d.left, d.top, d.width, d.height, d.den))

\* Lines 31-44: save, clip to the box, draw, restore.
drawImageCover(g, img, x, y, w, h) ==
    LET d == CoverDest(img.width, img.height, x, y, w, h)
    IN  CtxRestore(
            CtxDrawImage(CtxClipRect(CtxSave(g), x, y, w, h), img,
                         d.left, d.top, d.width, d.height, d.den))

----------------------------------------------------------------------------
(* applyPureBlackAndWhite (imageProcessor.ts 48-73).                       *)
(*                                                                         *)
(* Line 62 is evaluated in binary64.  A value is held in units of 2^-56    *)
(* (every double met here is a multiple of it and below 2^8) as four limbs *)
(* of 20 bits, least significant first.                                    *)

LimbBase == 2 ^ 20

\* The doubles nearest to 0.299, 0.587 and 0.114, in units of 2^-56.
W299 == <<67108, 276824, 19595, 0>>
W587 == <<33552, 662700, 38469, 0>>
W114 == <<947913, 109051, 7471, 0>>

\* Carry propagation over four limbs.
Normalize(l) ==
    LET c1 == l[1] \div LimbBase
        v2 == l[2] + c1
        c2 == v2 \div LimbBase
        v3 == l[3] + c2
        c3 == v3 \div LimbBase
    IN  <<l[1] % LimbBase, v2 % LimbBase, v3 % LimbBase, l[4] + c3>>

RECURSIVE BitLength(_)
BitLength(n) == IF n = 0 THEN 0 ELSE 1 + BitLength(n \div 2)

LimbsBitLength(l) ==
    CASE l[4] > 0 -> 60 + BitLength(l[4])
      [] l[3] > 0 -> 40 + BitLength(l[3])
      [] l[2] > 0 -> 20 + BitLength(l[2])
      [] OTHER    -> BitLength(l[1])

\* Rounding of an exact value to binary64: 53 significant bits, to nearest,
\* ties to even.  At most 11 bits are dropped, all of them in the lowest limb.
RoundToDouble(l) ==
    LET len == LimbsBitLength(l)
    IN  IF len <= 53 THEN l
        ELSE LET unit == 2 ^ (len - 53)
                 rem  == l[1] % unit
                 odd  == (l[1] \div unit) % 2 = 1
                 up   == 2 * rem > unit \/ (2 * rem = unit /\ odd)
             IN  Normalize(<<l[1] - rem + (IF up THEN unit ELSE 0), l[2], l[3], l[4]>>)

\* weight * channel and a + b, as doubles.
FlMul(wt, k) == RoundToDouble(Normalize(<<wt[1] * k, wt[2] * k, wt[3] * k, wt[4] * k>>))
FlAdd(a, b) == RoundToDouble(Normalize(<<a[1] + b[1], a[2] + b[2], a[3] + b[3], a[4] + b[4]>>))

\* Math.round: the nearest integer, a half going up: floor(v + 1/2), exact.
MathRound(l) ==
    LET t == Normalize(<<l[1], l[2], l[3] + 2 ^ 15, l[4]>>)
    IN  t[4] * 16 + t[3] \div (2 ^ 16)

\* Line 62 with the weights of red and green exchanged.
Luminance_SwappedWeights(r, g, b) ==
    MathRound(FlAdd(FlAdd(FlMul(W587, r), FlMul(W299, g)), FlMul(W114, b)))

\* Line 62: Math.round(0.299 * R + 0.587 * G + 0.114 * B), summed left to
\* right.
Luminance(r, g, b) ==
    MathRound(FlAdd(FlAdd(FlMul(W299, r), FlMul(W587, g)), FlMul(W114, b)))

\* Lines 65-68 writing the fourth byte as well.
GrayPixel_WritesAlpha(px) ==
    LET gray == Clamp(MathRound(FlAdd(FlAdd(FlMul(W299, px[1]), FlMul(W587, px[2])),
                                      FlMul(W114, px[3]))), 0, 255)
    IN  <<gray, gray, gray, gray>>

\* Lines 60-69 for one pixel of the Uint8ClampedArray: the three colour
\* channels are set to gray, the alpha byte is not written.
GrayPixel(px) ==
    LET gray == Clamp(Luminance(px[1], px[2], px[3]), 0, 255)
    IN  <<gray, gray, gray, px[4]>>

\* applyPureBlackAndWhite reading and writing the whole canvas.
applyPureBlackAndWhite_WholeCanvas(g, x, y, width, height) ==
    [g EXCEPT !.pixels = [p \in Pixels |-> GrayPixel(g.pixels[p])]]

\* getImageData(x, y, width, height), the loop, putImageData(imageData, x, y):
\* putImageData replaces the pixels of the rectangle, whatever the clip.
applyPureBlackAndWhite(g, x, y, width, height) ==
    LET area == RectPixels([x |-> x, y |-> y, width |-> width, height |-> height])
    IN  [g EXCEPT !.pixels =
            [p \in Pixels |-> IF p \in area THEN GrayPixel(g.pixels[p]) ELSE g.pixels[p]]]

----------------------------------------------------------------------------
(* The vignette of composeNewspaper (imageProcessor.ts 152-163).           *)

RECURSIVE SqrtBetween(_, _, _)
\* The largest k in lo .. hi with k * k <= n.
SqrtBetween(n, lo, hi) ==
    IF lo >= hi THEN lo
    ELSE LET mid == (lo + hi + 1) \div 2
         IN  IF mid * mid <= n THEN SqrtBetween(n, mid, hi)
             ELSE SqrtBetween(n, lo, mid - 1)

\* GradientAlphaAt with the colour stops of lines 159-160 the other way
\* round: rgba(0,0,0,0.1) at the midpoint, rgba(0,0,0,0) at the radius.
GradientAlphaAt_Reversed(p, cw, hh) ==
    LET dx  == 2 * p[1] + 1 - cw
        dy  == 2 * p[2] + 1 - hh
        sc  == IF dx * dx + dy * dy <= 1600 THEN 1000 ELSE 10
        d   == SqrtBetween((dx * dx + dy * dy) * sc * sc, 0, 46340)
    IN  1000 - Min(1000, (3 * d * (1000 \div sc)) \div (5 * cw))

\* Opacity, in ten-thousandths, of the gradient at the centre of pixel p of a
\* canvas cw wide and hh high: from rgba(0,0,0,0) at the canvas midpoint to
\* rgba(0,0,0,0.1) at the radius canvas.width / 1.2, and 0.1 beyond it.
GradientAlphaAt(p, cw, hh) ==
    LET dx  == 2 * p[1] + 1 - cw
        dy  == 2 * p[2] + 1 - hh
        \* sc * twice the distance from the midpoint; sc is 1000 near the
        \* midpoint and 10 where 1000 would not fit the integers
        sc  == IF dx * dx + dy * dy <= 1600 THEN 1000 ELSE 10
        d   == SqrtBetween((dx * dx + dy * dy) * sc * sc, 0, 46340)
        \* the radius is 5 * cw / 6: the position t on the gradient, in thousandths
        t   == Min(1000, (3 * d * (1000 \div sc)) \div (5 * cw))
    IN  t

\* The gradient on the canvas of the layout.
GradientAlpha(p) ==
    GradientAlphaAt(p, newspaperLayout.canvas.width, newspaperLayout.canvas.height)

\* One pixel under the fillRect of line 162 on a canvas cw wide and hh high:
\* under "multiply" a black source of opacity a leaves (1 - a) of every
\* channel; under "source-over" it does the same.
VignettePixel(px, globalAlpha, p, cw, hh) ==
    Blend(px, <<0, 0, 0>>, globalAlpha * GradientAlphaAt(p, cw, hh), 100 * 10000)

\* fillRect(0, 0, width, height) with the gradient as fillStyle.
CtxFillGradient(g) ==
    [g EXCEPT !.pixels =
        [p \in Pixels |->
            IF p \in g.clip
            THEN VignettePixel(g.pixels[p], g.globalAlpha, p, g.width, g.height)
            ELSE g.pixels[p]]]

----------------------------------------------------------------------------
(* loadImageSafe (imageProcessor.ts 76-84) and the messages of the errors  *)
(* a call can throw.  A string is the sequence of its character codes.     *)

\* "/frames/newspaper-a4.png", the reference of the template (line 94).
TemplatePath ==
    <<47, 102, 114, 97, 109, 101, 115, 47, 110, 101, 119, 115, 112, 97,
      112, 101, 114, 45, 97, 52, 46, 112, 110, 103>>

\* "data:image/jpeg;base64,": what every photo reference begins with, the
\* photos being made by canvas.toDataURL('image/jpeg', 0.9).
JpegDataUriHead ==
    <<100, 97, 116, 97, 58, 105, 109, 97, 103, 101, 47, 106, 112, 101, 103,
      59, 98, 97, 115, 101, 54, 52, 44>>

\* A photo reference of len characters: the head, a body of "A", and a last
\* character that tells it from the other references of its length.
PhotoSrc(len, last) ==
    JpegDataUriHead \o [i \in 1 .. len - Len(JpegDataUriHead) - 1 |-> 65] \o <<last>>

\* String.prototype.substring(from, to) for 0 <= from <= to.
Substring(str, from, to) == SubSeq(str, from + 1, Min(to, Len(str)))

\* "Failed to load image: "
FailedToLoadText ==
    <<70, 97, 105, 108, 101, 100, 32, 116, 111, 32, 108, 111, 97, 100, 32,
      105, 109, 97, 103, 101, 58, 32>>

\* "..."
EllipsisText ==
    <<46, 46, 46>>

\* Line 81: `Failed to load image: ${src.substring(0, 50)}...`
LoadErrorMessage(src) ==
    FailedToLoadText \o Substring(src, 0, MessagePrefixLen) \o EllipsisText

\* ContextErrorMessage with the text of a load failure.
ContextErrorMessage_AsLoadFailure == LoadErrorMessage(TemplatePath)

\* Line 104: "Canvas context not available"
ContextErrorMessage ==
    <<67, 97, 110, 118, 97, 115, 32, 99, 111, 110, 116, 101, 120, 116, 32,
      110, 111, 116, 32, 97, 118, 97, 105, 108, 97, 98, 108, 101>>

\* The references a call is given for its three assets: the template path
\* and two photos that differ in their last character.
Src(a) ==
    CASE a = "frame" -> TemplatePath
      [] a = "photo1" -> PhotoSrc(MaxSrcLen, 66)
      [] OTHER -> PhotoSrc(MaxSrcLen, 67)

----------------------------------------------------------------------------
(* composeNewspaper (imageProcessor.ts 86-172) and loadImageSafe (76-84).  *)

NoOutcome == [kind |-> "none"]
NoProbe == [fn |-> "none"]

IsImage(v) == v.state = "loaded"

AllLoaded == \A a \in Assets : IsImage(loads[a])

main == newspaperLayout.photoMain
secondary == newspaperLayout.photoSecondary

\* The sizes a decoded image can have: any for a photo; the template is a
\* single pixel or a 2 x 3 portrait page.
ImgSizes(a) ==
    IF a = "frame" THEN {<<1, 1>>, <<2, 3>>}
    ELSE (1 .. MaxImgDim) \X (1 .. MaxImgDim)

\* No page is mounted: the compositor is looked at on its own.
IdleApp ==
    /\ route = "none"
    /\ mounted = "none"
    /\ localStorage = << >>
    /\ session = << >>
    /\ refs = << >>
    /\ camera = << >>
    /\ video = << >>
    /\ streams = << >>
    /\ starts = << >>
    /\ timers = << >>
    /\ uploads = << >>
    /\ resultPage = << >>
    /\ composeCalls = << >>

IdleCompose ==
    /\ pc = "idle"
    /\ loads = [a \in Assets |-> [state |-> "idle"]]
    /\ all = [state |-> "pending"]
    /\ ctx = NoCtx
    /\ grainLeft = 0
    /\ grainHits = [p \in Pixels |-> << >>]
    /\ ops = << >>
    /\ outcome = NoOutcome

\* No second call is in the page.
NoPair == calls = << >> /\ heap = << >>

Init == IdleCompose /\ probe = NoProbe /\ NoPair /\ IdleApp

\* Lines 93-97: the three loadImageSafe calls start their loads and the call
\* waits for Promise.all of them.
Call ==
    /\ pc = "idle"
    /\ pc' = "awaitLoads"
    /\ loads' = [a \in Assets |-> [state |-> "pending"]]
    /\ UNCHANGED <<all, ctx, grainLeft, grainHits, ops, outcome, probe, calls, heap, appVars>>

\* Line 80: img.onload resolves the load with the decoded image; Promise.all
\* is fulfilled by the last of the three.
ImageLoaded(a) ==
    /\ loads[a].state = "pending"
    /\ \E sz \in ImgSizes(a) :
          loads' = [loads EXCEPT ![a] = [state |-> "loaded", asset |-> a,
                                          width |-> sz[1], height |-> sz[2]]]
    /\ all' = IF all.state = "pending" /\ \A b \in Assets \ {a} : IsImage(loads[b])
              THEN [state |-> "fulfilled"]
              ELSE all
    /\ UNCHANGED <<pc, ctx, grainLeft, grainHits, ops, outcome, probe, calls, heap, appVars>>

\* Line 81: img.onerror rejects the load; the first rejection rejects
\* Promise.all, the other loads go on.
ImageError(a) ==
    /\ loads[a].state = "pending"
    /\ loads' = [loads EXCEPT ![a] = [state |-> "failed"]]
    /\ all' = IF all.state = "pending"
              THEN [state |-> "rejected", asset |-> a]
              ELSE all
    /\ UNCHANGED <<pc, ctx, grainLeft, grainHits, ops, outcome, probe, calls, heap, appVars>>

\* Resume with a catch block that swallows the rejection and goes on.
Resume_SwallowsRejection ==
    /\ pc = "awaitLoads"
    /\ all.state \in {"fulfilled", "rejected"}
    /\ pc' = "canvas"
    /\ UNCHANGED <<loads, all, ctx, grainLeft, grainHits, ops, outcome, probe, calls, heap, appVars>>

\* Resume with a catch block that starts the call again after a rejection.
Resume_Retries ==
    /\ pc = "awaitLoads"
    /\ \/ /\ all.state = "fulfilled"
          /\ pc' = "canvas"
          /\ UNCHANGED <<loads, all>>
       \/ /\ all.state = "rejected"
          /\ pc' = "idle"
          /\ loads' = [a \in Assets |-> [state |-> "idle"]]
          /\ all' = [state |-> "pending"]
    /\ UNCHANGED <<ctx, grainLeft, grainHits, ops, outcome, probe, calls, heap, appVars>>

\* Lines 93 and 168-171: the await ends.  A rejection goes through the catch
\* block, which rethrows it.
Resume ==
    /\ pc = "awaitLoads"
    /\ \/ /\ all.state = "fulfilled"
          /\ pc' = "canvas"
          /\ UNCHANGED outcome
       \/ /\ all.state = "rejected"
          /\ pc' = "done"
          /\ outcome' = [kind |-> "rejected", error |-> "load", asset |-> all.asset,
                         message |-> LoadErrorMessage(Src(all.asset))]
    /\ UNCHANGED <<loads, all, ctx, grainLeft, grainHits, ops, probe, calls, heap, appVars>>

\* CreateCanvas returning an empty image instead of throwing.
CreateCanvas_ReturnsEmpty ==
    /\ pc = "canvas"
    /\ \/ /\ ctx' = NewContext
          /\ pc' = "background"
          /\ UNCHANGED outcome
       \/ /\ pc' = "done"
          /\ outcome' = [kind |-> "image", width |-> 0, height |-> 0,
                         pixels |-> [p \in Pixels |-> <<0, 0, 0, 255>>]]
          /\ UNCHANGED ctx
    /\ UNCHANGED <<loads, all, grainLeft, grainHits, ops, probe, calls, heap, appVars>>

\* Lines 100-109: the canvas and its context; without a context the call
\* throws.
CreateCanvas ==
    /\ pc = "canvas"
    /\ \/ /\ ctx' = NewContext
          /\ pc' = "background"
          /\ UNCHANGED outcome
       \/ /\ pc' = "done"
          /\ outcome' = [kind |-> "rejected", error |-> "context",
                         message |-> ContextErrorMessage]
          /\ UNCHANGED ctx
    /\ UNCHANGED <<loads, all, grainLeft, grainHits, ops, probe, calls, heap, appVars>>

\* Line 117.
DrawBackground ==
    /\ pc = "background"
    /\ ctx' = CtxDrawImage(ctx, loads["frame"], 0, 0, ctx.width, ctx.height, 1)
    /\ ops' = Append(ops, "background")
    /\ pc' = "cover1"
    /\ UNCHANGED <<loads, all, grainLeft, grainHits, outcome, probe, calls, heap, appVars>>

\* Line 122 followed at once by line 130: the desaturation of line 125 is
\* left out.
CoverPhoto1_SkipsDesaturate ==
    /\ pc = "cover1"
    /\ ctx' = drawImageCover(ctx, loads["photo1"], main.x, main.y, main.width, main.height)
    /\ ops' = Append(ops, "cover1")
    /\ pc' = "cover2"
    /\ UNCHANGED <<loads, all, grainLeft, grainHits, outcome, probe, calls, heap, appVars>>

\* Line 122.
CoverPhoto1 ==
    /\ pc = "cover1"
    /\ ctx' = drawImageCover(ctx, loads["photo1"], main.x, main.y, main.width, main.height)
    /\ ops' = Append(ops, "cover1")
    /\ pc' = "gray1"
    /\ UNCHANGED <<loads, all, grainLeft, grainHits, outcome, probe, calls, heap, appVars>>

\* Line 125.
Desaturate1 ==
    /\ pc = "gray1"
    /\ ctx' = applyPureBlackAndWhite(ctx, main.x, main.y, main.width, main.height)
    /\ ops' = Append(ops, "gray1")
    /\ pc' = "cover2"
    /\ UNCHANGED <<loads, all, grainLeft, grainHits, outcome, probe, calls, heap, appVars>>

\* Line 130.
CoverPhoto2 ==
    /\ pc = "cover2"
    /\ ctx' = drawImageCover(ctx, loads["photo2"], secondary.x, secondary.y,
                             secondary.width, secondary.height)
    /\ ops' = Append(ops, "cover2")
    /\ pc' = "gray2"
    /\ UNCHANGED <<loads, all, grainLeft, grainHits, outcome, probe, calls, heap, appVars>>

\* Line 133 with the rectangle of line 125 (main instead of secondary).
Desaturate2_MainAgain ==
    /\ pc = "gray2"
    /\ ctx' = applyPureBlackAndWhite(ctx, main.x, main.y, main.width, main.height)
    /\ ops' = Append(ops, "gray2")
    /\ pc' = "grain"
    /\ UNCHANGED <<loads, all, grainLeft, grainHits, outcome, probe, calls, heap, appVars>>

\* Line 133.
Desaturate2 ==
    /\ pc = "gray2"
    /\ ctx' = applyPureBlackAndWhite(ctx, secondary.x, secondary.y,
                                     secondary.width, secondary.height)
    /\ ops' = Append(ops, "gray2")
    /\ pc' = "grain"
    /\ UNCHANGED <<loads, all, grainLeft, grainHits, outcome, probe, calls, heap, appVars>>

\* GrainBegin without the save of line 139: the restore of line 150 finds
\* nothing to restore and globalAlpha stays at 0.08.
GrainBegin_NoSave ==
    /\ pc = "grain"
    /\ ctx' = [ctx EXCEPT !.globalAlpha = 8, !.fillStyle = "#000000"]
    /\ grainLeft' = GrainDots
    /\ ops' = Append(ops, "grain")
    /\ pc' = "grainLoop"
    /\ UNCHANGED <<loads, all, grainHits, outcome, probe, calls, heap, appVars>>

\* Lines 139-141: save, globalAlpha = 0.08, fillStyle = "#000000"; the loop
\* of line 142 starts.
GrainBegin ==
    /\ pc = "grain"
    /\ ctx' = [CtxSave(ctx) EXCEPT !.globalAlpha = 8, !.fillStyle = "#000000"]
    /\ grainLeft' = GrainDots
    /\ ops' = Append(ops, "grain")
    /\ pc' = "grainLoop"
    /\ UNCHANGED <<loads, all, grainHits, outcome, probe, calls, heap, appVars>>

\* Lines 143-148: one fillRect of 1 x 1 at a random place of the canvas.
GrainDot ==
    /\ pc = "grainLoop"
    /\ grainLeft > 0
    /\ \E rx \in 0 .. RandomSteps - 1, ry \in 0 .. RandomSteps - 1 :
          LET gx == rx * ctx.width       \* Math.random() * canvas.width, over RandomSteps
              gy == ry * ctx.height
          IN  /\ ctx' = CtxFillRect(ctx, gx, gy, RandomSteps, RandomSteps, RandomSteps)
              /\ grainHits' =
                    [p \in Pixels |->
                        LET cov == Overlap(p[1], gx, gx + RandomSteps, RandomSteps)
                                   * Overlap(p[2], gy, gy + RandomSteps, RandomSteps)
                        IN  IF cov > 0 THEN Append(grainHits[p], cov) ELSE grainHits[p]]
    /\ grainLeft' = grainLeft - 1
    /\ UNCHANGED <<pc, loads, all, ops, outcome, probe, calls, heap, appVars>>

\* Line 150: the loop is over, restore.
GrainEnd ==
    /\ pc = "grainLoop"
    /\ grainLeft = 0
    /\ ctx' = CtxRestore(ctx)
    /\ pc' = "vignette"
    /\ UNCHANGED <<loads, all, grainLeft, grainHits, ops, outcome, probe, calls, heap, appVars>>

\* Lines 153-163: save, the radial gradient as fillStyle, "multiply",
\* fillRect over the whole canvas, restore.
Vignette ==
    /\ pc = "vignette"
    /\ ctx' = CtxRestore(CtxFillGradient(
                  [CtxSave(ctx) EXCEPT !.fillStyle = "gradient", !.op = "multiply"]))
    /\ ops' = Append(ops, "vignette")
    /\ pc' = "encode"
    /\ UNCHANGED <<loads, all, grainLeft, grainHits, outcome, probe, calls, heap, appVars>>

\* Line 166: canvas.toDataURL("image/png", 1.0) gives the image, or throws
\* and the catch block rethrows.
Encode ==
    /\ pc = "encode"
    /\ ops' = Append(ops, "encode")
    /\ pc' = "done"
    /\ \/ outcome' = [kind |-> "image", width |-> ctx.width, height |-> ctx.height,
                      pixels |-> ctx.pixels]
       \/ outcome' = [kind |-> "rejected", error |-> "encode"]
    /\ UNCHANGED <<loads, all, ctx, grainLeft, grainHits, probe, calls, heap, appVars>>

Next ==
    \/ Call
    \/ \E a \in Assets : ImageLoaded(a)
    \/ \E a \in Assets : ImageError(a)
    \/ Resume
    \/ CreateCanvas
    \/ DrawBackground
    \/ CoverPhoto1
    \/ Desaturate1
    \/ CoverPhoto2
    \/ Desaturate2
    \/ GrainBegin
    \/ GrainDot
    \/ GrainEnd
    \/ Vignette
    \/ Encode

Spec == Init /\ [][Next]_vars

----------------------------------------------------------------------------
(* drawImageCover on its own: every photo size and rectangle within the    *)
(* bound, the rectangle at a few places.                                   *)

CoverInputs ==
    [ fn : {"cover"}, done : {FALSE},
      iw : 1 .. MaxCoverDim, ih : 1 .. MaxCoverDim,
      x : 0 .. 1, y : 0 .. 1,
      w : 1 .. MaxCoverDim, h : 1 .. MaxCoverDim ]

InitCover == IdleCompose /\ probe \in CoverInputs /\ NoPair /\ IdleApp

\* Lines 11-42 applied to the input.
ApplyCover ==
    /\ probe.fn = "cover"
    /\ ~probe.done
    /\ probe' = [ fn |-> "cover", done |-> TRUE,
                  iw |-> probe.iw, ih |-> probe.ih,
                  x |-> probe.x, y |-> probe.y, w |-> probe.w, h |-> probe.h,
                  fit |-> CoverFit(probe.iw, probe.ih, probe.w, probe.h),
                  dest |-> CoverDest(probe.iw, probe.ih, probe.x, probe.y,
                                     probe.w, probe.h) ]
    /\ UNCHANGED <<pc, loads, all, ctx, grainLeft, grainHits, ops, outcome, calls, heap, appVars>>

NextCover == ApplyCover

SpecCover == InitCover /\ [][NextCover]_vars

----------------------------------------------------------------------------
(* The desaturation of one pixel on its own.                               *)

GrayChannels ==
    { k * GrayStep : k \in 0 .. (255 \div GrayStep) } \cup {12, 13, 36, 37, 255}

GrayInputs ==
    [ fn : {"gray"}, done : {FALSE},
      px : GrayChannels \X GrayChannels \X GrayChannels \X {0, 255} ]

InitGray == IdleCompose /\ probe \in GrayInputs /\ NoPair /\ IdleApp

\* Lines 60-69 applied to one pixel of the image data.
ApplyGray ==
    /\ probe.fn = "gray"
    /\ ~probe.done
    /\ probe' = [ fn |-> "gray", done |-> TRUE, px |-> probe.px,
                  out |-> GrayPixel(probe.px) ]
    /\ UNCHANGED <<pc, loads, all, ctx, grainLeft, grainHits, ops, outcome, calls, heap, appVars>>

NextGray == ApplyGray

SpecGray == InitGray /\ [][NextGray]_vars

\* The canvas operations of lines 117-166, in the order of the code.
StepOrder ==
    <<"background", "cover1", "gray1", "cover2", "gray2", "grain", "vignette", "encode">>

----------------------------------------------------------------------------
(* The failure of loadImageSafe on its own: two references, each failing   *)
(* to load.                                                                *)

\* The template path and photo references of 48 to MaxSrcLen characters,
\* three of each length, alike up to their last character.
Srcs ==
    {TemplatePath} \cup { PhotoSrc(n, c) : n \in 48 .. MaxSrcLen, c \in {66, 67, 68} }

LoadInputs == [ fn : {"loadError"}, done : {FALSE}, srcA : Srcs, srcB : Srcs ]

InitLoad == IdleCompose /\ probe \in LoadInputs /\ NoPair /\ IdleApp

\* Line 81 for each of the two references: img.onerror rejects with the
\* error.
ApplyLoadError ==
    /\ probe.fn = "loadError"
    /\ ~probe.done
    /\ probe' = [ fn |-> "loadError", done |-> TRUE,
                  srcA |-> probe.srcA, srcB |-> probe.srcB,
                  msgA |-> LoadErrorMessage(probe.srcA),
                  msgB |-> LoadErrorMessage(probe.srcB) ]
    /\ UNCHANGED <<pc, loads, all, ctx, grainLeft, grainHits, ops, outcome, calls, heap, appVars>>

NextLoad == ApplyLoadError

SpecLoad == InitLoad /\ [][NextLoad]_vars

----------------------------------------------------------------------------
(* The vignette on one pixel of a canvas of the size the page has in       *)
(* print.                                                                  *)

\* The canvas of the layout at its full size: a portrait page of 2550 x 3300
\* pixels.
printCanvas == [width |-> 2550, height |-> 3300]

\* The pixels tried: a grid over the whole canvas, its corners among them,
\* and the pixels around the midpoint.
VignettePoints ==
    LET cw == printCanvas.width
        hh == printCanvas.height
    IN  { <<Min(cw - 1, (i * cw) \div VignetteCuts), Min(hh - 1, (j * hh) \div VignetteCuts)>> :
              i \in 0 .. VignetteCuts, j \in 0 .. VignetteCuts }
        \cup { <<cw \div 2 + i, hh \div 2 + j>> :
                  i \in -MidReach .. MidReach - 1, j \in -MidReach .. MidReach - 1 }

VignetteInputs ==
    [ fn : {"vignette"}, done : {FALSE}, p : VignettePoints,
      px : { <<v, 255 - v, (7 * v) % 256, 255>> : v \in GrayChannels } ]

InitVignette == IdleCompose /\ probe \in VignetteInputs /\ NoPair /\ IdleApp

\* Lines 153-163 on one pixel: globalAlpha is 1 after the restore of line 150.
ApplyVignette ==
    /\ probe.fn = "vignette"
    /\ ~probe.done
    /\ probe' = [ fn |-> "vignette", done |-> TRUE, p |-> probe.p, px |-> probe.px,
                  out |-> VignettePixel(probe.px, 100, probe.p,
                                        printCanvas.width, printCanvas.height) ]
    /\ UNCHANGED <<pc, loads, all, ctx, grainLeft, grainHits, ops, outcome, calls, heap, appVars>>

NextVignette == ApplyVignette

SpecVignette == InitVignette /\ [][NextVignette]_vars

----------------------------------------------------------------------------
(* Two calls of composeNewspaper in one page.  A call has one await, the   *)
(* Promise.all of line 93; what follows it, lines 99-166, runs without     *)
(* interruption.  The load events of the two calls interleave freely.      *)

CallIds == {1, 2}

DateTexts == {"22 FEB 2026", "23 FEB 2026"}

\* What the three references of a call decode to when their loads succeed.
PairSources ==
    { [frame |-> <<2, 3>>, photo1 |-> <<MaxImgDim, 1>>, photo2 |-> <<1, MaxImgDim>>],
      [frame |-> <<1, 1>>, photo1 |-> <<1, 1>>, photo2 |-> <<MaxImgDim, MaxImgDim>>] }

\* The values Math.random() takes in the grain loop of one call: a pair
\* (rx, ry) over RandomSteps for each iteration, each the least or the
\* greatest value there is.
DotSeqs == [1 .. GrainDots -> {0, RandomSteps - 1} \X {0, RandomSteps - 1}]

IdleCall(sources, dateText) ==
    [ pc |-> "idle", sources |-> sources, dateText |-> dateText,
      loads |-> [a \in Assets |-> [state |-> "idle"]],
      all |-> [state |-> "pending"],
      canvas |-> 0, dots |-> << >>, ops |-> << >>, outcome |-> NoOutcome ]

\* Both calls are given the same template and the same two photos; the date
\* strings may differ.
InitPair ==
    /\ IdleCompose
    /\ IdleApp
    /\ probe = NoProbe
    /\ heap = << >>
    /\ \E s \in PairSources, d \in DateTexts :
          calls = <<IdleCall(s, "22 FEB 2026"), IdleCall(s, d)>>

\* document.createElement("canvas") handing out a canvas kept at module
\* level: every call after the first gets the canvas of the first.
CreateElementCanvas_Shared(h) ==
    IF h = << >> THEN [heap |-> <<NewContext>>, id |-> 1]
    ELSE [heap |-> h, id |-> 1]

\* Lines 100-109: document.createElement("canvas") makes a new canvas on
\* every call.
CreateElementCanvas(h) == [heap |-> Append(h, NewContext), id |-> Len(h) + 1]

RECURSIVE GrainLoop_BigDots(_, _)
\* GrainLoop with dots of 2 x 2 pixels.
GrainLoop_BigDots(g, dots) ==
    IF dots = << >> THEN g
    ELSE GrainLoop_BigDots(
             CtxFillRect(g, dots[1][1] * g.width, dots[1][2] * g.height,
                         2 * RandomSteps, 2 * RandomSteps, RandomSteps),
             Tail(dots))

RECURSIVE GrainLoop(_, _)
\* Lines 142-148: one fillRect of 1 x 1 for each pair of random values.
GrainLoop(g, dots) ==
    IF dots = << >> THEN g
    ELSE GrainLoop(
             CtxFillRect(g, dots[1][1] * g.width, dots[1][2] * g.height,
                         RandomSteps, RandomSteps, RandomSteps),
             Tail(dots))

\* DrawDate printing the date string at the foot of the page: a black mark
\* whose place depends on the string.
DrawDate_FillText(g, dateText) ==
    CtxFillRect(g, IF dateText = "22 FEB 2026" THEN 0 ELSE 1,
                g.height - 1, 1, 1, 1)

\* Lines 135-137: the step that would print the date is a comment; the
\* canvas is as it was.
DrawDate(g, dateText) == g

\* Lines 117-137 on the canvas g: the template, the two photos cover-fitted
\* and desaturated, the date step.
BeforeGrain(g, imgs, dateText) ==
    LET g1 == CtxDrawImage(g, imgs["frame"], 0, 0, g.width, g.height, 1)
        g2 == drawImageCover(g1, imgs["photo1"], main.x, main.y, main.width, main.height)
        g3 == applyPureBlackAndWhite(g2, main.x, main.y, main.width, main.height)
        g4 == drawImageCover(g3, imgs["photo2"], secondary.x, secondary.y,
                             secondary.width, secondary.height)
        g5 == applyPureBlackAndWhite(g4, secondary.x, secondary.y,
                                     secondary.width, secondary.height)
    IN  DrawDate(g5, dateText)

\* Lines 117-163 on the canvas g, with the images imgs and the random values
\* dots.
ComposeOn(g, imgs, dots, dateText) ==
    LET g6 == BeforeGrain(g, imgs, dateText)
        g7 == CtxRestore(GrainLoop(
                  [CtxSave(g6) EXCEPT !.globalAlpha = 8, !.fillStyle = "#000000"], dots))
    IN  CtxRestore(CtxFillGradient(
            [CtxSave(g7) EXCEPT !.fillStyle = "gradient", !.op = "multiply"]))

\* Lines 93-97 in call i.
PairCall(i) ==
    /\ calls[i].pc = "idle"
    /\ calls' = [calls EXCEPT ![i].pc = "awaitLoads",
                              ![i].loads = [a \in Assets |-> [state |-> "pending"]]]
    /\ UNCHANGED <<pc, loads, all, ctx, grainLeft, grainHits, ops, outcome, probe, heap, appVars>>

\* Line 80 in call i.
PairImageLoaded(i, a) ==
    /\ calls[i].loads[a].state = "pending"
    /\ calls' = [calls EXCEPT
          ![i].loads[a] = [state |-> "loaded", asset |-> a,
                           width |-> calls[i].sources[a][1],
                           height |-> calls[i].sources[a][2]],
          ![i].all = IF /\ calls[i].all.state = "pending"
                        /\ \A b \in Assets \ {a} : IsImage(calls[i].loads[b])
                     THEN [state |-> "fulfilled"]
                     ELSE calls[i].all]
    /\ UNCHANGED <<pc, loads, all, ctx, grainLeft, grainHits, ops, outcome, probe, heap, appVars>>

\* Line 81 in call i.
PairImageError(i, a) ==
    /\ calls[i].loads[a].state = "pending"
    /\ calls' = [calls EXCEPT
          ![i].loads[a] = [state |-> "failed"],
          ![i].all = IF calls[i].all.state = "pending"
                     THEN [state |-> "rejected", asset |-> a]
                     ELSE calls[i].all]
    /\ UNCHANGED <<pc, loads, all, ctx, grainLeft, grainHits, ops, outcome, probe, heap, appVars>>

\* Lines 93 and 168-171 in call i: the await ends with a rejection.
PairReject(i) ==
    /\ calls[i].pc = "awaitLoads"
    /\ calls[i].all.state = "rejected"
    /\ calls' = [calls EXCEPT
          ![i].pc = "done",
          ![i].outcome = [kind |-> "rejected", error |-> "load",
                          asset |-> calls[i].all.asset,
                          message |-> LoadErrorMessage(Src(calls[i].all.asset))]]
    /\ UNCHANGED <<pc, loads, all, ctx, grainLeft, grainHits, ops, outcome, probe, heap, appVars>>

\* Lines 99-105 in call i: the await ends with the three images and no 2D
\* context is to be had.
PairNoContext(i) ==
    /\ calls[i].pc = "awaitLoads"
    /\ calls[i].all.state = "fulfilled"
    /\ calls' = [calls EXCEPT
          ![i].pc = "done",
          ![i].outcome = [kind |-> "rejected", error |-> "context",
                          message |-> ContextErrorMessage]]
    /\ UNCHANGED <<pc, loads, all, ctx, grainLeft, grainHits, ops, outcome, probe, heap, appVars>>

\* Lines 99-166 in call i: the await ends with the three images; the call
\* creates its canvas, draws every step on it and encodes it.
PairCompose(i) ==
    /\ calls[i].pc = "awaitLoads"
    /\ calls[i].all.state = "fulfilled"
    /\ \E dots \in DotSeqs, encoded \in BOOLEAN :
          LET el   == CreateElementCanvas(heap)
              done == ComposeOn(el.heap[el.id], calls[i].loads, dots, calls[i].dateText)
          IN  /\ heap' = [el.heap EXCEPT ![el.id] = done]
              /\ calls' = [calls EXCEPT
                    ![i].pc = "done",
                    ![i].canvas = el.id,
                    ![i].dots = dots,
                    ![i].ops = StepOrder,
                    ![i].outcome =
                        IF encoded
                        THEN [kind |-> "image", width |-> done.width,
                              height |-> done.height, pixels |-> done.pixels]
                        ELSE [kind |-> "rejected", error |-> "encode"]]
    /\ UNCHANGED <<pc, loads, all, ctx, grainLeft, grainHits, ops, outcome, probe, appVars>>

NextPair ==
    \E i \in CallIds :
        \/ PairCall(i)
        \/ \E a \in Assets : PairImageLoaded(i, a)
        \/ \E a \in Assets : PairImageError(i, a)
        \/ PairReject(i)
        \/ PairNoContext(i)
        \/ PairCompose(i)

SpecPair == InitPair /\ [][NextPair]_vars

----------------------------------------------------------------------------
(* The grain loop at its full length (imageProcessor.ts 139-150), from a   *)
(* canvas on which the template and the photos have been drawn, up to the  *)
(* vignette.                                                               *)

\* The three images loaded as the sources s decode.
LoadedAs(s) ==
    [a \in Assets |-> [state |-> "loaded", asset |-> a,
                       width |-> s[a][1], height |-> s[a][2]]]

\* A 2 x 3 template, a photo 1 wider than high and a photo 2 higher than wide.
GrainSources ==
    [frame |-> <<2, 3>>, photo1 |-> <<MaxImgDim, 1>>, photo2 |-> <<1, MaxImgDim>>]

\* A call that has drawn and desaturated both photos.
InitGrain ==
    /\ pc = "grain"
    /\ loads = LoadedAs(GrainSources)
    /\ ctx = BeforeGrain(NewContext, LoadedAs(GrainSources), "22 FEB 2026")
    /\ all = [state |-> "fulfilled"]
    /\ grainLeft = 0
    /\ grainHits = [p \in Pixels |-> << >>]
    /\ ops = SubSeq(StepOrder, 1, 5)
    /\ outcome = NoOutcome
    /\ probe = [fn |-> "grain", i |-> 0]
    /\ NoPair
    /\ IdleApp

\* Line 142: the condition of the loop, i < 1000.
LoopRuns(i) == i < GrainCount

\* Lines 142-148: the loop condition holds, one fillRect of 1 x 1 at
\* (Math.random() * canvas.width, Math.random() * canvas.height), i++.  The
\* random values are the least or the greatest there is, the same for both.
GrainStep ==
    /\ probe.fn = "grain"
    /\ pc = "grainLoop"
    /\ LoopRuns(probe.i)
    /\ \E r \in {0, RandomSteps - 1} :
          LET gx == r * ctx.width
              gy == r * ctx.height
          IN  /\ ctx' = CtxFillRect(ctx, gx, gy, RandomSteps, RandomSteps, RandomSteps)
              /\ probe' = [fn |-> "grain", i |-> probe.i + 1]
    /\ UNCHANGED <<pc, loads, all, grainLeft, grainHits, ops, outcome, calls, heap, appVars>>

\* Lines 142 and 150: the loop condition fails, restore.
GrainExit ==
    /\ probe.fn = "grain"
    /\ pc = "grainLoop"
    /\ ~LoopRuns(probe.i)
    /\ ctx' = CtxRestore(ctx)
    /\ pc' = "vignette"
    /\ UNCHANGED <<loads, all, grainLeft, grainHits, ops, outcome, probe, calls, heap, appVars>>

NextGrain ==
    \/ GrainBegin
    \/ GrainStep
    \/ GrainExit
    \/ Vignette

SpecGrain == InitGrain /\ [][NextGrain]_vars

----------------------------------------------------------------------------
(* Properties of the compositor.                                           *)

IsPrefix(a, b) == Len(a) <= Len(b) /\ a = SubSeq(b, 1, Len(a))

SomeLoadFailed == \E a \in Assets : loads[a].state = "failed"

IsGray(px) == px[1] = px[2] /\ px[2] = px[3]

PhotoArea == RectPixels(main) \cup RectPixels(secondary)

\* The canvas as line 117 leaves it: the template stretched over a new canvas.
BackgroundPixels ==
    CtxDrawImage(NewContext, loads["frame"], 0, 0,
                 newspaperLayout.canvas.width, newspaperLayout.canvas.height, 1).pixels

\* C1: once any of the three loads has failed, Promise.all is rejected, no
\* canvas exists, no drawing or encoding step has run, no image is returned,
\* and when the call has left its await it has rejected with the load failure
\* of an asset that did fail.
C1_LoadFailureIsTotal ==
    SomeLoadFailed =>
        /\ all.state = "rejected"
        /\ loads[all.asset].state = "failed"
        /\ ctx = NoCtx
        /\ ops = << >>
        /\ outcome.kind # "image"
        /\ pc \in {"awaitLoads", "done"}
        /\ pc = "done" => /\ outcome.kind = "rejected"
                          /\ outcome.error = "load"
                          /\ outcome.asset = all.asset

\* A call rejected by the failure of photo 2 after the template and photo 1
\* had loaded.
C1_Witness ==
    /\ pc = "done"
    /\ outcome.kind = "rejected"
    /\ outcome.error = "load"
    /\ outcome.asset = "photo2"
    /\ loads["frame"].state = "loaded"
    /\ loads["photo1"].state = "loaded"

\* C2: the canvas operations performed are always an initial part of
\* background, cover 1, desaturate 1, cover 2, desaturate 2, grain, vignette,
\* encode; none is performed before all three loads have completed, the
\* vignette not before the grain loop has ended, and a returned image has
\* gone through all of them.
C2_StepOrder ==
    /\ IsPrefix(ops, StepOrder)
    /\ ops # << >> => AllLoaded /\ all.state = "fulfilled"
    /\ Len(ops) >= 7 => grainLeft = 0 /\ pc \in {"encode", "done"}
    /\ outcome.kind = "image" => ops = StepOrder

C2_Witness ==
    /\ outcome.kind = "image"
    /\ ops = StepOrder

\* C3: the call has an outcome exactly when it is over; the outcome is an
\* image, and then every load succeeded and every step from the background
\* to the encoding ran on the canvas the image shows, or it is a rejection
\* (load, drawing surface or encode failure) that carries no image.
C3_TotalSuccessOrFailure ==
    /\ outcome.kind \in {"none", "image", "rejected"}
    /\ (pc = "done") <=> (outcome.kind # "none")
    /\ outcome.kind = "image" =>
          /\ AllLoaded
          /\ ctx # NoCtx
          /\ ops = StepOrder
          /\ grainLeft = 0
          /\ outcome.pixels = ctx.pixels
    /\ outcome.kind = "rejected" =>
          /\ DOMAIN outcome \cap {"pixels", "width", "height"} = {}
          /\ outcome.error \in {"load", "context", "encode"}
          /\ outcome.error = "load" => SomeLoadFailed /\ ops = << >>
          /\ outcome.error = "context" => ctx = NoCtx /\ ops = << >>
          /\ outcome.error = "encode" => ops = StepOrder

\* A call rejected because no drawing context was available.
C3_Witness ==
    /\ pc = "done"
    /\ outcome.kind = "rejected"
    /\ outcome.error = "context"
    /\ AllLoaded

\* C4: when both rectangles have been desaturated and the grain has not
\* begun, every pixel of the two photo rectangles has R = G = B and every
\* other pixel has the colour the background draw gave it.
C4_GrayInsideBackgroundOutside ==
    pc = "grain" =>
        \A p \in Pixels :
            IF p \in PhotoArea THEN IsGray(ctx.pixels[p])
            ELSE ctx.pixels[p] = BackgroundPixels[p]

\* Both rectangles desaturated over a patterned template: a photo pixel that
\* was coloured is gray, a template pixel outside is still coloured.
C4_Witness ==
    /\ pc = "grain"
    /\ loads["frame"].width = 2
    /\ loads["photo1"].width = 2
    /\ loads["photo1"].height = 1
    /\ \E p \in Pixels \ PhotoArea : ~IsGray(ctx.pixels[p])
    /\ \E p \in RectPixels(main) : ctx.pixels[p] = <<150, 150, 150, 255>>

C7_CoverStaysInRect ==
    [][ /\ (pc = "cover1" /\ pc' = "gray1") =>
              /\ \A p \in Pixels \ RectPixels(main) : ctx'.pixels[p] = ctx.pixels[p]
              /\ ctx'.clip = Pixels /\ ctx'.stack = << >>
        /\ (pc = "cover2" /\ pc' = "gray2") =>
              /\ \A p \in Pixels \ RectPixels(secondary) : ctx'.pixels[p] = ctx.pixels[p]
              /\ \A p \in RectPixels(main) : IsGray(ctx'.pixels[p])
              /\ ctx'.clip = Pixels /\ ctx'.stack = << >>
      ]_vars

\* Photo 2, 1 x 2, has been drawn into the 2 x 1 secondary rectangle: the
\* drawn area is 4 high and reaches over the main rectangle, which the clip
\* kept as it was.
C7_Witness ==
    /\ pc = "gray2"
    /\ loads["photo2"].width = 1 /\ loads["photo2"].height = 2
    /\ CoverDest(1, 2, secondary.x, secondary.y, secondary.width, secondary.height).top
          < (main.y + main.height)
            * CoverDest(1, 2, secondary.x, secondary.y, secondary.width, secondary.height).den
    /\ \A p \in RectPixels(secondary) : ctx.pixels[p] = <<255, 255, 255, 255>>
    /\ \E p \in RectPixels(secondary) : BackgroundPixels[p] # <<255, 255, 255, 255>>
    /\ \A p \in Pixels \ PhotoArea : ctx.pixels[p] = BackgroundPixels[p]
    /\ ctx.clip = Pixels

\* The gray value of exact arithmetic: round-half-up of
\* (299 R + 587 G + 114 B) / 1000.
ExactGray(px) == (299 * px[1] + 587 * px[2] + 114 * px[3] + 500) \div 1000

\* The exact weighted sum lies half-way between two integers.
IsTie(px) == (299 * px[1] + 587 * px[2] + 114 * px[3]) % 1000 = 500

\* C8 as stated: every desaturated pixel has all three channels equal to the
\* exact round(0.299 R + 0.587 G + 0.114 B).
C8_ExactRounding ==
    (probe.fn = "gray" /\ probe.done) =>
        /\ probe.out[1] = ExactGray(probe.px)
        /\ probe.out[2] = ExactGray(probe.px)
        /\ probe.out[3] = ExactGray(probe.px)

\* C8, amended: every desaturated pixel has three equal channels in 0 .. 255;
\* their value is the exact round(0.299 R + 0.587 G + 0.114 B) unless the
\* exact sum lies half-way between two integers, where it is that value or
\* the integer below it; (255,0,0) gives 76, (0,255,0) gives 150 and
\* (255,255,255) gives 255.
C8_RoundingOfDoubleSum ==
    (probe.fn = "gray" /\ probe.done) =>
        LET px == probe.px
            out == probe.out
        IN  /\ out[1] = out[2] /\ out[2] = out[3]
            /\ out[1] \in 0 .. 255
            /\ ~IsTie(px) => out[1] = ExactGray(px)
            /\ IsTie(px) => out[1] \in {ExactGray(px) - 1, ExactGray(px)}
            /\ (px[1] = 255 /\ px[2] = 0 /\ px[3] = 0) => out[1] = 76
            /\ (px[1] = 0 /\ px[2] = 255 /\ px[3] = 0) => out[1] = 150
            /\ (px[1] = 255 /\ px[2] = 255 /\ px[3] = 255) => out[1] = 255

\* The pixel (0, 36, 12), whose exact sum is 22.5, desaturated to 22.
C8_Witness ==
    /\ probe.fn = "gray"
    /\ probe.done
    /\ probe.px[1] = 0 /\ probe.px[2] = 36 /\ probe.px[3] = 12
    /\ probe.out[1] = 22

\* C9: desaturation leaves the alpha value of the pixel as it was.
C9_AlphaUntouched ==
    (probe.fn = "gray" /\ probe.done) => probe.out[4] = probe.px[4]

\* A transparent red pixel desaturated: gray 76, still transparent.
C9_Witness ==
    /\ probe.fn = "gray"
    /\ probe.done
    /\ probe.px = <<255, 0, 0, 0>>
    /\ probe.out = <<76, 76, 76, 0>>

RECURSIVE GrainOver(_, _)
\* A pixel after the grain dots of the given coverages (line 143 under the
\* settings of lines 140-141).
GrainOver(px, hits) ==
    IF hits = << >> THEN px
    ELSE GrainOver(Blend(px, <<0, 0, 0>>, 8 * hits[1], 100 * RandomSteps * RandomSteps),
                   Tail(hits))

\* A pixel at p after the vignette (lines 158-162, globalAlpha 1).
VignetteOver(px, p) == Blend(px, <<0, 0, 0>>, 100 * GradientAlpha(p), 100 * 10000)

\* C10: in the image returned, every pixel of the two photo rectangles is
\* gray, and every other pixel is the stretched template pixel darkened by
\* the grain dots that hit it and by the vignette, no channel above the
\* template's.
C10_FinalImage ==
    outcome.kind = "image" =>
        \A p \in Pixels :
            IF p \in PhotoArea THEN IsGray(outcome.pixels[p])
            ELSE /\ outcome.pixels[p] = VignetteOver(GrainOver(BackgroundPixels[p], grainHits[p]), p)
                 /\ \A i \in 1 .. 3 : outcome.pixels[p][i] <= BackgroundPixels[p][i]
                 /\ outcome.pixels[p][4] = BackgroundPixels[p][4]

\* An image whose photo rectangles and whose margin were both hit by grain:
\* the margin pixel is darker than the template, the photo pixel gray.
C10_Witness ==
    /\ outcome.kind = "image"
    /\ loads["frame"].width = 2
    /\ \E p \in Pixels \ PhotoArea :
          /\ grainHits[p] # << >>
          /\ outcome.pixels[p] # BackgroundPixels[p]
          /\ ~IsGray(outcome.pixels[p])
    /\ \E p \in PhotoArea : outcome.pixels[p][1] \notin {0, 255}

\* C11: the canvas of the call has the configured width and height from its
\* creation on, and an image returned has exactly that width and height and
\* one pixel for each position of the configured canvas, whatever the sizes
\* of the template and of the two photos.
C11_ConfiguredCanvasSize ==
    /\ ctx # NoCtx =>
          /\ ctx.width = newspaperLayout.canvas.width
          /\ ctx.height = newspaperLayout.canvas.height
    /\ outcome.kind = "image" =>
          /\ outcome.width = newspaperLayout.canvas.width
          /\ outcome.height = newspaperLayout.canvas.height
          /\ DOMAIN outcome.pixels =
                (0 .. outcome.width - 1) \X (0 .. outcome.height - 1)

\* An image returned from a 1 x 1 template, a 2 x 1 photo 1 and a 1 x 2
\* photo 2: none has the size or the aspect ratio of the canvas.
C11_Witness ==
    /\ outcome.kind = "image"
    /\ loads["frame"].width = 1 /\ loads["frame"].height = 1
    /\ loads["photo1"].width = 2 /\ loads["photo1"].height = 1
    /\ loads["photo2"].width = 1 /\ loads["photo2"].height = 2
    /\ outcome.width = 4 /\ outcome.height = 6

BothImages ==
    /\ calls # << >>
    /\ calls[1].outcome.kind = "image"
    /\ calls[2].outcome.kind = "image"

\* Pixel p lies, in part at least, under one of the 1 x 1 dots plotted for
\* the random values dots.
Touched(p, dots) ==
    \E k \in 1 .. Len(dots) :
        /\ Overlap(p[1], dots[k][1] * newspaperLayout.canvas.width,
                   dots[k][1] * newspaperLayout.canvas.width + RandomSteps, RandomSteps) > 0
        /\ Overlap(p[2], dots[k][2] * newspaperLayout.canvas.height,
                   dots[k][2] * newspaperLayout.canvas.height + RandomSteps, RandomSteps) > 0

\* C12: when two calls given the same template and the same two photos have
\* both returned an image, the two images have the same size and the same
\* colour at every pixel that no grain dot of either call touched.
C12_GrainOnlyDifference ==
    BothImages =>
        /\ calls[1].outcome.width = calls[2].outcome.width
        /\ calls[1].outcome.height = calls[2].outcome.height
        /\ \A p \in Pixels :
              (~Touched(p, calls[1].dots) /\ ~Touched(p, calls[2].dots)) =>
                  calls[1].outcome.pixels[p] = calls[2].outcome.pixels[p]

\* Two images of the same inputs whose grain fell on different pixels: they
\* differ at a pixel only one of the calls dotted and agree at the others.
C12_Witness ==
    /\ BothImages
    /\ calls[1].loads = calls[2].loads
    /\ calls[1].dots # calls[2].dots
    /\ \E p \in Pixels :
          /\ Touched(p, calls[1].dots) /\ ~Touched(p, calls[2].dots)
          /\ calls[1].outcome.pixels[p] # calls[2].outcome.pixels[p]
    /\ \E p \in Pixels :
          /\ ~Touched(p, calls[1].dots) /\ ~Touched(p, calls[2].dots)
          /\ calls[1].outcome.pixels[p] \notin {<<0, 0, 0, 255>>, <<255, 255, 255, 255>>}

\* C13 as stated: the load failures of two different references, two photo
\* references alike in their first 50 characters among them, are different
\* failures.
C13_FailureIdentifiesAsset ==
    (probe.fn = "loadError" /\ probe.done /\ probe.srcA # probe.srcB) =>
        probe.msgA # probe.msgB

\* C14: a call that found no 2D context has rejected with the error of line
\* 104, whose message is the message of no load failure, of whatever
\* reference; it has drawn nothing, encoded nothing, and it holds no
\* context.  No load failure has the message of line 104.
C14_ContextFailureIsDistinct ==
    /\ (outcome.kind = "rejected" /\ outcome.error = "context") =>
          /\ outcome.message = ContextErrorMessage
          /\ \A src \in Srcs : outcome.message # LoadErrorMessage(src)
          /\ \A a \in Assets : outcome.message # LoadErrorMessage(Src(a))
          /\ AllLoaded
          /\ ctx = NoCtx
          /\ ops = << >>
          /\ "pixels" \notin DOMAIN outcome
    /\ (outcome.kind = "rejected" /\ outcome.error = "load") =>
          /\ outcome.message = LoadErrorMessage(Src(outcome.asset))
          /\ outcome.message # ContextErrorMessage

\* The three images loaded, a 2 x 3 template among them, and the call
\* rejected for want of a context, nothing drawn.
C14_Witness ==
    /\ pc = "done"
    /\ outcome.kind = "rejected"
    /\ outcome.error = "context"
    /\ outcome.message = ContextErrorMessage
    /\ loads["frame"].state = "loaded" /\ loads["frame"].width = 2
    /\ loads["photo1"].state = "loaded"
    /\ loads["photo2"].state = "loaded"
    /\ ops = << >>

Failed == SomeLoadFailed \/ outcome.kind = "rejected"

\* C15: the load of an asset starts only when the call starts, from the
\* state in which it was never requested, and a call that has started never
\* starts again; once a load has failed or the call has rejected, no load
\* starts, no canvas is created or drawn on, no operation joins the trace,
\* and a rejection given to the caller stays as it is.
C15_NoRetry ==
    [][ /\ \A a \in Assets :
              (loads'[a].state = "pending" /\ loads[a].state # "pending") =>
                  (loads[a].state = "idle" /\ pc = "idle")
        /\ pc' = "idle" => pc = "idle"
        /\ Failed =>
              /\ \A a \in Assets :
                    loads'[a].state = "pending" => loads[a].state = "pending"
              /\ ctx' = ctx
              /\ ops' = ops
              /\ outcome.kind = "rejected" => (outcome' = outcome /\ pc' = pc)
      ]_vars

\* The call has rejected with the failure of photo 1 while the load of
\* photo 2 is still under way: nothing was drawn.
C15_Witness ==
    /\ pc = "done"
    /\ outcome.kind = "rejected"
    /\ outcome.error = "load"
    /\ outcome.asset = "photo1"
    /\ loads["photo1"].state = "failed"
    /\ loads["photo2"].state = "pending"
    /\ ops = << >>
    /\ ctx = NoCtx

\* What call i returns when it runs alone with the same images and the same
\* random values: the steps of lines 117-163 on a canvas of its own.
AlonePixels(i) ==
    ComposeOn(NewContext, calls[i].loads, calls[i].dots, calls[i].dateText).pixels

\* C16: of two calls whose load events interleave, each one that got past
\* its await has created a canvas of its own, never the canvas of the other;
\* the image a call returned is what its own canvas holds, and is the image
\* the call returns alone with the same grain draws; a call rejects for a
\* load only when one of its own loads failed.
C16_CallsAreIsolated ==
    calls # << >> =>
        /\ Len(heap) = Cardinality({i \in CallIds : calls[i].canvas # 0})
        /\ (calls[1].canvas # 0 /\ calls[2].canvas # 0) =>
              calls[1].canvas # calls[2].canvas
        /\ \A i \in CallIds :
              /\ calls[i].canvas # 0 =>
                    /\ calls[i].canvas \in 1 .. Len(heap)
                    /\ \A a \in Assets : IsImage(calls[i].loads[a])
              /\ calls[i].outcome.kind = "image" =>
                    /\ calls[i].canvas # 0
                    /\ calls[i].outcome.pixels = heap[calls[i].canvas].pixels
                    /\ calls[i].outcome.pixels = AlonePixels(i)
              /\ (calls[i].outcome.kind = "rejected" /\ calls[i].outcome.error = "load") =>
                    /\ calls[i].loads[calls[i].outcome.asset].state = "failed"
                    /\ calls[i].canvas = 0

\* Call 2 got its images first and drew on the first canvas, call 1 on the
\* second; both returned an image, and the two canvases differ.
C16_Witness ==
    /\ calls # << >>
    /\ calls[2].canvas = 1
    /\ calls[1].canvas = 2
    /\ calls[1].outcome.kind = "image"
    /\ calls[2].outcome.kind = "image"
    /\ calls[1].loads["frame"].width = 2
    /\ heap[1].pixels # heap[2].pixels
    /\ calls[1].outcome.pixels = heap[2].pixels

\* C20: two calls given the same template and photos that made the same
\* grain draws return the same image, pixel for pixel, whether their date
\* strings are the same or not; whatever its date string, the operations a
\* call performs on its canvas are those of lines 117-166 and no other, and
\* its image is the one the steps give with any other date string.
C20_DateTextIsUnused ==
    calls # << >> =>
        /\ (BothImages /\ calls[1].dots = calls[2].dots) =>
              calls[1].outcome = calls[2].outcome
        /\ \A i \in CallIds :
              /\ calls[i].ops \in {<< >>, StepOrder}
              /\ calls[i].outcome.kind = "image" =>
                    \A d \in DateTexts :
                        calls[i].outcome.pixels =
                            ComposeOn(NewContext, calls[i].loads, calls[i].dots, d).pixels

\* Two calls with different date strings, the same images and the same
\* grain draws, both returned: the same image.
C20_Witness ==
    /\ BothImages
    /\ calls[1].dateText # calls[2].dateText
    /\ calls[1].loads = calls[2].loads
    /\ calls[1].dots = calls[2].dots
    /\ calls[1].outcome.pixels = calls[2].outcome.pixels
    /\ calls[1].ops = StepOrder

\* The pixel p of the full-size canvas holds the canvas midpoint, in its
\* inside or on its edge.
HoldsMidpoint(p) ==
    /\ 2 * p[1] <= printCanvas.width /\ printCanvas.width <= 2 * p[1] + 2
    /\ 2 * p[2] <= printCanvas.height /\ printCanvas.height <= 2 * p[2] + 2

\* C17: the vignette leaves no channel of any pixel above what it was, and
\* leaves a pixel that holds the canvas midpoint exactly as it was.
C17_VignetteOnlyDarkens ==
    (probe.fn = "vignette" /\ probe.done) =>
        /\ \A i \in 1 .. 4 : probe.out[i] <= probe.px[i]
        /\ HoldsMidpoint(probe.p) => probe.out = probe.px

\* A channel of 255 in the pixel of the top left corner, darkened to 230.
C17_Witness ==
    /\ probe.fn = "vignette"
    /\ probe.done
    /\ probe.p = <<0, 0>>
    /\ probe.px[1] = 255
    /\ probe.out[1] = 230

\* The pixel p of the canvas g after one black dot of 1 x 1 at opacity 0.08
\* under source-over, its corner at (x, y) over den.
DotOver(g, p, x, y, den) ==
    Blend(g.pixels[p], <<0, 0, 0>>,
          8 * Overlap(p[1], x, x + den, den) * Overlap(p[2], y, y + den, den),
          100 * den * den)

\* C18: the grain loop plots one dot for each i from 0 to 999 and no other:
\* 1000 when it is over.  Each iteration changes the canvas as one black dot
\* of 1 x 1 at opacity 0.08 under source-over does whose corner, at a
\* random value times the width and the height of the canvas, has
\* 0 <= x < canvas width and 0 <= y < canvas height; the loop runs at
\* globalAlpha 0.08 with a black fillStyle, the state of before saved with
\* its globalAlpha of 1; no step of it raises a channel
\* of any pixel; after the loop globalAlpha is 1 again, nothing is left on
\* the state stack, and the vignette darkens each pixel as it does at
\* globalAlpha 1.
C18_GrainLoop ==
    [][ probe.fn = "grain" =>
          /\ pc' = "grainLoop" =>
                /\ probe'.i <= GrainCount
                /\ ctx'.globalAlpha = 8
                /\ ctx'.fillStyle = "#000000"
                /\ ctx'.op = "source-over"
                /\ Len(ctx'.stack) = 1
                /\ ctx'.stack[1].globalAlpha = 100
          /\ (pc = "grainLoop" /\ probe'.i # probe.i) =>
                /\ probe'.i = probe.i + 1
                /\ \E rx \in {0, RandomSteps - 1}, ry \in {0, RandomSteps - 1} :
                      /\ rx * ctx.width < ctx.width * RandomSteps
                      /\ ry * ctx.height < ctx.height * RandomSteps
                      /\ \A p \in Pixels :
                            ctx'.pixels[p] = DotOver(ctx, p, rx * ctx.width,
                                                     ry * ctx.height, RandomSteps)
          /\ pc \in {"grain", "grainLoop"} =>
                \A p \in Pixels : \A k \in 1 .. 4 : ctx'.pixels[p][k] <= ctx.pixels[p][k]
          /\ pc' \in {"vignette", "encode"} => probe'.i = GrainCount
          /\ pc' = "vignette" =>
                /\ ctx'.globalAlpha = 100
                /\ ctx'.op = "source-over"
                /\ ctx'.stack = << >>
          /\ (pc = "vignette" /\ pc' = "encode") =>
                \A p \in Pixels : ctx'.pixels[p] = VignetteOver(ctx.pixels[p], p)
      ]_vars

\* The loop is over after 1000 dots, some of them in the top left corner,
\* which is darker than the template; the vignette has not begun.
C18_Witness ==
    /\ probe.fn = "grain"
    /\ pc = "vignette"
    /\ probe.i = GrainCount
    /\ \E k \in 1 .. 3 : ctx.pixels[<<0, 0>>][k] < BackgroundPixels[<<0, 0>>][k]
    /\ ctx.globalAlpha = 100

\* C19: every pixel of the canvas has full alpha from the creation of the
\* canvas on, and so has every pixel of an image returned, whatever the
\* alpha of the pixels of the template and of the photos.
C19_OutputIsOpaque ==
    /\ ctx # NoCtx => \A p \in Pixels : ctx.pixels[p][4] = 255
    /\ outcome.kind = "image" => \A p \in Pixels : outcome.pixels[p][4] = 255

\* An image returned from a 2 x 3 template whose bottom left pixel is half
\* transparent: the margin pixel it was stretched over is opaque, its colour
\* darker than the template's.
C19_Witness ==
    /\ outcome.kind = "image"
    /\ loads["frame"].width = 2 /\ loads["frame"].height = 3
    /\ ImagePixel(loads["frame"], 0, 2) = <<10, 20, 200, 128>>
    /\ BackgroundPixels[<<0, 5>>] = <<5, 10, 100, 255>>
    /\ outcome.pixels[<<0, 5>>][4] = 255
    /\ outcome.pixels[<<0, 5>>][3] \in 1 .. 100

----------------------------------------------------------------------------
(***************************************************************************)
(* Part 2: the pages that call the compositor.                             *)
(*                                                                         *)
(* SessionPage (src/src/app/session/[id]/page.tsx, the component of lines  *)
(* 507-1073) with its hook useCamera (src/src/hooks/useCamera.ts), and     *)
(* ResultPage (src/unnamed/part_001).                                      *)
(*                                                                         *)
(* A handler is a function from the state of the page before it to the     *)
(* state after it; the state is gathered in a record, the "world".  React  *)
(* renders and runs the effects whose dependencies changed before the next *)
(* event is handled: an action is a handler followed by that.  A handler   *)
(* the user starts sees the values of the latest render; a callback kept   *)
(* by a timer sees the values of the render that created it, which it      *)
(* carries as its closure.  A state setter of a component that is no       *)
(* longer mounted changes nothing.                                         *)
(***************************************************************************)

\* null, for a photo reference
NoPhoto == [src |-> "null", id |-> 0]
\* the string "", which is a reference that is present and empty
EmptyText == [src |-> "empty", id |-> 0]
\* The data URL of a frame of the video that shows stream s (s = 0: of a
\* video that shows nothing).
CameraPhoto(s) == [src |-> "camera", id |-> s]
\* The data URL uploadPhoto makes of file f, and the crop of it.
UploadPhoto(f) == [src |-> "upload", id |-> f]
CropPhoto(f) == [src |-> "crop", id |-> f]
\* The data URL of a crop canvas on which nothing of file f was drawn.
BlankCrop(f) == [src |-> "blank", id |-> f]
\* A reference an earlier visit has left in the store.
StoredPhoto(k) == [src |-> "stored", id |-> k]

\* What JavaScript takes for true in "if (photo)": neither null nor "".
Truthy(v) == v.src \notin {"null", "empty"}

\* null, for a crop corner, a countdown, a message
NoPoint == << >>
NoCount == 0
NoText == "null"

\* The calls q of startCamera, those whose handlers are "from" now "to".
Reattach(q, from, to) ==
    [i \in 1 .. Len(q) |->
        IF q[i].attached = from THEN [q[i] EXCEPT !.attached = to] ELSE q[i]]

\* The calls q of startCamera, those in progress marked with where they are
\* as the page is unmounted.
LeftAt(q) ==
    [i \in 1 .. Len(q) |->
        IF q[i].pc # "returned" THEN [q[i] EXCEPT !.left = q[i].pc] ELSE q[i]]

\* Lines 26-43 of page.tsx and 22-29 of useCamera.ts: the values a freshly
\* mounted SessionPage holds.
FreshSession ==
    [ captured |-> NoPhoto, countdown |-> NoCount, isCapturing |-> FALSE,
      uploadMode |-> FALSE, uploadError |-> NoText, tempImage |-> NoPhoto,
      isCropping |-> FALSE, cropStart |-> NoPoint, cropEnd |-> NoPoint,
      isDragging |-> FALSE ]

FreshRefs ==
    [ countdownRef |-> 0, initAttemptRef |-> FALSE,
      hasInitializedRef |-> FALSE, streamRef |-> 0, playPromiseRef |-> 0,
      startAttemptRef |-> FALSE, mountedRef |-> TRUE ]

FreshCamera ==
    [ isCameraActive |-> FALSE, isCameraStarting |-> FALSE, error |-> NoText ]

\* No <video> element is rendered: videoRef.current is null.
NoVideo == [present |-> FALSE, srcObject |-> 0]
NoTimers == [init |-> FALSE, retake |-> {}, countdown |-> {}]

\* The state of the pages, as one record.
World ==
    [ route |-> route, mounted |-> mounted, localStorage |-> localStorage,
      session |-> session, refs |-> refs, camera |-> camera, video |-> video,
      streams |-> streams, starts |-> starts, timers |-> timers,
      uploads |-> uploads ]

\* The next state of the pages is w.
Commit(w) ==
    /\ route' = w.route
    /\ mounted' = w.mounted
    /\ localStorage' = w.localStorage
    /\ session' = w.session
    /\ refs' = w.refs
    /\ camera' = w.camera
    /\ video' = w.video
    /\ streams' = w.streams
    /\ starts' = w.starts
    /\ timers' = w.timers
    /\ uploads' = w.uploads

\* A setter of SessionPage or of useCamera: field f becomes v while the
\* page is mounted.
SetSession(w, f, v) ==
    IF w.mounted = "session"
    THEN [w EXCEPT !.session = [w.session EXCEPT ![f] = v]] ELSE w
SetCamera(w, f, v) ==
    IF w.mounted = "session"
    THEN [w EXCEPT !.camera = [w.camera EXCEPT ![f] = v]] ELSE w
SetRef(w, f, v) == [w EXCEPT !.refs = [w.refs EXCEPT ![f] = v]]

\* track.stop() on every track of stream s.
StopTracks(w, s) ==
    IF s = 0 THEN w ELSE [w EXCEPT !.streams = [w.streams EXCEPT ![s] = "stopped"]]

----------------------------------------------------------------------------
(* useCamera: starting and stopping the camera.                            *)

\* Line 165: the message of every failed start.
CameraErrorText == "Camera access denied. Please use upload option."

\* safeStopCamera without setIsCameraActive(false).
safeStopCamera_KeepsActive(w) ==
    LET a == SetRef(StopTracks(w, w.refs.streamRef), "streamRef", 0)
        b == IF a.video.present
             THEN [SetRef(a, "playPromiseRef", 0) EXCEPT !.video.srcObject = 0]
             ELSE a
    IN  SetRef(b, "startAttemptRef", FALSE)

\* safeStopCamera letting go of the stream without stopping its tracks.
safeStopCamera_KeepsTracks(w) ==
    LET a == SetRef(w, "streamRef", 0)
        b == IF a.video.present
             THEN [SetRef(a, "playPromiseRef", 0) EXCEPT !.video.srcObject = 0]
             ELSE a
    IN  SetRef(SetCamera(b, "isCameraActive", FALSE), "startAttemptRef", FALSE)

\* useCamera.ts lines 32-60.  The tracks of the stream the hook holds are
\* stopped and the stream is let go; if a <video> element is rendered its
\* source is cleared; isCameraActive and the start-attempt flag are reset.
safeStopCamera(w) ==
    LET a == SetRef(StopTracks(w, w.refs.streamRef), "streamRef", 0)
        b == IF a.video.present
             THEN [SetRef(a, "playPromiseRef", 0) EXCEPT !.video.srcObject = 0]
             ELSE a
    IN  SetRef(SetCamera(b, "isCameraActive", FALSE), "startAttemptRef", FALSE)

\* useCamera.ts lines 62-64.
stopCamera(w) == safeStopCamera(w)

\* A call of startCamera: where it is, the stream it was given (0: none),
\* what it returned, whether it has called getUserMedia, whether its
\* metadata handlers are on the element now rendered ("current"), on an
\* element no longer rendered ("old"), or on none, and where it was when the
\* page was unmounted ("no": it was not in progress then).
NewStart(at, value) ==
    [pc |-> at, stream |-> 0, value |-> value, requested |-> FALSE,
     attached |-> "none", left |-> "no"]

\* page.tsx lines 569-580: initCamera after its await of startCamera.
initCameraResume(w, success) ==
    SetRef(IF success THEN w ELSE SetRef(w, "hasInitializedRef", FALSE),
           "initAttemptRef", FALSE)

\* useCamera.ts lines 158, 161, 173 and 175-180: call i returns v through
\* its finally block, and the initCamera that awaits it goes on.
StartReturns(w, i, v) ==
    LET a == IF w.refs.mountedRef THEN SetCamera(w, "isCameraStarting", FALSE) ELSE w
        b == SetRef(a, "startAttemptRef", FALSE)
        c == [b EXCEPT !.starts[i].pc = "returned", !.starts[i].value = v]
    IN  initCameraResume(c, v = "true")

\* The catch block without the stopping of the stream.
StartCatch_KeepsStream(w, i) ==
    StartReturns(SetCamera(w, "error", CameraErrorText), i, "false")

\* useCamera.ts lines 163-173: the catch block of call i.
StartCatch(w, i) ==
    LET a == SetCamera(w, "error", CameraErrorText)
        b == SetRef(StopTracks(a, a.refs.streamRef), "streamRef", 0)
    IN  StartReturns(b, i, "false")

\* startCamera without setIsCameraStarting(true).
startCamera_NoStartingFlag(w, c) ==
    IF w.refs.startAttemptRef \/ c.isCameraStarting
    THEN [w EXCEPT !.starts = Append(@, NewStart("returned", "false"))]
    ELSE IF c.isCameraActive
    THEN [w EXCEPT !.starts = Append(@, NewStart("returned", "true"))]
    ELSE LET a == SetRef(w, "startAttemptRef", TRUE)
             d == safeStopCamera(SetCamera(a, "error", NoText))
         IN  [d EXCEPT !.starts = Append(@, NewStart("delay", "pending"))]

\* useCamera.ts lines 66-89, up to the first await.  c is the closure of the
\* callback: the isCameraActive and isCameraStarting of the render that made
\* it.
startCamera(w, c) ==
    IF w.refs.startAttemptRef \/ c.isCameraStarting
    THEN [w EXCEPT !.starts = Append(@, NewStart("returned", "false"))]
    ELSE IF c.isCameraActive
    THEN [w EXCEPT !.starts = Append(@, NewStart("returned", "true"))]
    ELSE LET a == SetRef(w, "startAttemptRef", TRUE)
             b == SetCamera(SetCamera(a, "isCameraStarting", TRUE), "error", NoText)
             d == safeStopCamera(b)
         IN  [d EXCEPT !.starts = Append(@, NewStart("delay", "pending"))]

\* useCamera.ts lines 91-117 after getUserMedia has given call i a stream.
AfterGetUserMedia(w, i) ==
    LET s == Len(w.streams) + 1
        a == [w EXCEPT !.streams = Append(@, "live"), !.starts[i].stream = s]
    IN  IF ~a.refs.mountedRef
        THEN StartReturns(SetCamera(SetRef(StopTracks(a, s), "startAttemptRef", FALSE),
                                    "isCameraStarting", FALSE), i, "false")
        ELSE LET b == SetRef(a, "streamRef", s)
             IN  IF b.video.present
                 THEN [b EXCEPT !.video.srcObject = s,
                                !.starts = [Reattach(@, "current", "none") EXCEPT
                                               ![i].pc = "metadata",
                                               ![i].attached = "current"]]
                 ELSE StartReturns(b, i, "false")

\* useCamera.ts lines 140-149 after the metadata of the video has loaded:
\* play() of a video element that is no longer rendered throws.
AfterMetadata(w, i) ==
    IF ~w.refs.mountedRef \/ ~w.video.present
    THEN StartCatch(w, i)
    ELSE [SetRef(w, "playPromiseRef", i) EXCEPT !.starts[i].pc = "play"]

\* useCamera.ts lines 152-158 after play() has resolved.
AfterPlay(w, i) ==
    IF ~w.refs.mountedRef
    THEN StartCatch(w, i)
    ELSE StartReturns(SetCamera(w, "isCameraActive", TRUE), i, "true")

\* page.tsx lines 551-568.  c is the closure of the callback: the
\* uploadMode, isCameraActive and isCameraStarting of the render that made it
\* (the startCamera it calls is of the same render).
initCamera(w, c) ==
    IF \/ c.uploadMode \/ w.refs.hasInitializedRef
       \/ c.isCameraActive \/ c.isCameraStarting
    THEN w
    ELSE LET a == SetRef(SetRef(w, "hasInitializedRef", TRUE), "initAttemptRef", TRUE)
             b == startCamera(a, c)
             i == Len(b.starts)
         IN  IF b.starts[i].pc = "returned"
             THEN initCameraResume(b, b.starts[i].value = "true")
             ELSE b

----------------------------------------------------------------------------
(* SessionPage: rendering, effects and handlers.                           *)

\* The session the page is for: Number(id) of the route /session/[id].
SessionId(r) == IF r = "/session/1" THEN 1 ELSE 2
\* page.tsx line 779: the key `session-${sessionId}`.
SessionKey(n) == IF n = 1 THEN "session-1" ELSE "session-2"

\* What a callback carries of the render that made it.
Closure(w) ==
    [ uploadMode |-> w.session.uploadMode,
      isCameraActive |-> w.camera.isCameraActive,
      isCameraStarting |-> w.camera.isCameraStarting ]

\* page.tsx lines 904-915: the <video> element is rendered while nothing is
\* captured and the page is in camera mode.  An element that is rendered
\* anew shows nothing, and the handlers set on the element before it stay
\* on that one.
Render(w) ==
    LET shows == /\ w.mounted = "session"
                 /\ ~Truthy(w.session.captured)
                 /\ ~w.session.uploadMode
    IN  IF shows = w.video.present THEN w
        ELSE [w EXCEPT !.video = [present |-> shows, srcObject |-> 0],
                       !.starts = Reattach(@, "current", "old")]

\* page.tsx lines 584-609: the body of the camera effect.
CameraEffect(w) ==
    LET a == IF /\ ~w.session.uploadMode /\ ~w.camera.isCameraActive
                /\ ~w.camera.isCameraStarting /\ ~w.refs.hasInitializedRef
             THEN [w EXCEPT !.timers.init = TRUE] ELSE w
    IN  IF a.session.uploadMode /\ a.camera.isCameraActive
        THEN SetRef(stopCamera(a), "hasInitializedRef", FALSE)
        ELSE a

\* page.tsx lines 610-616: the camera effect runs again, after its cleanup
\* has cleared the timeout, when uploadMode, isCameraActive or
\* isCameraStarting has changed (initCamera and stopCamera change with them
\* only).  Settle(old, w) is w rendered, with the effects run, old being the
\* state at the render before.
RECURSIVE Settle(_, _)
Settle(old, w) ==
    LET r == Render(w)
    IN  IF r.mounted # "session" \/ Closure(old) = Closure(r) THEN r
        ELSE Settle(r, CameraEffect([r EXCEPT !.timers.init = FALSE]))

\* page.tsx lines 610-628 and React's unmounting: the refs to the elements
\* are cleared, then the cleanups of the effects run.
Unmount(w) ==
    LET a == [w EXCEPT !.mounted = "none", !.video = NoVideo,
                       !.starts = LeftAt(Reattach(@, "current", "old")),
                       !.timers.init = FALSE]
        b == stopCamera(a)
    IN  IF b.refs.countdownRef # 0
        THEN [SetRef(b, "countdownRef", 0) EXCEPT
                 !.timers.countdown = @ \ {b.refs.countdownRef}]
        ELSE b

\* The mounting of SessionPage on route r: fresh state, the first render and
\* the first run of the camera effect.
MountSession(w, r) ==
    CameraEffect(Render(
        [w EXCEPT !.route = r, !.mounted = "session", !.session = FreshSession,
                  !.refs = FreshRefs, !.camera = FreshCamera, !.video = NoVideo,
                  !.starts = << >>, !.timers = NoTimers,
                  !.uploads = [f \in DOMAIN w.uploads |-> "none"]]))

\* useCamera.ts lines 183-228, without the sizes: null if the camera was not
\* active in the render the callback is of, or an element is missing, or no
\* 2D context is given; else a frame of what the video shows.
capturePhoto(w, c, hasContext) ==
    IF ~w.video.present \/ ~c.isCameraActive \/ w.mounted # "session" \/ ~hasContext
    THEN NoPhoto
    ELSE CameraPhoto(w.video.srcObject)

\* page.tsx lines 650-659 (the flash is not modelled).
handleCapture(w, c, hasContext) ==
    LET photo == capturePhoto(w, c, hasContext)
    IN  IF Truthy(photo)
        THEN SetSession(SetSession(w, "captured", photo), "isCapturing", FALSE)
        ELSE w

\* The least interval id that is not in use.
FreshTimerId(w) ==
    CHOOSE n \in 1 .. Cardinality(w.timers.countdown) + 2 :
        n \notin w.timers.countdown /\ n # w.refs.countdownRef

\* page.tsx lines 630-648.
startCountdown(w) ==
    IF w.session.isCapturing \/ ~w.camera.isCameraActive THEN w
    ELSE LET a == SetSession(SetSession(w, "isCapturing", TRUE), "countdown", 3)
             timer == FreshTimerId(a)
         IN  [SetRef(a, "countdownRef", timer) EXCEPT
                 !.timers.countdown = @ \cup {timer}]

\* The interval callback without clearInterval(timer).
CountdownTick_KeepsInterval(w, id, hasContext) ==
    IF w.mounted # "session" THEN w
    ELSE IF w.session.countdown = 1
    THEN SetSession(handleCapture(w, [isCameraActive |-> TRUE], hasContext),
                    "countdown", NoCount)
    ELSE SetSession(w, "countdown",
                    IF w.session.countdown # NoCount
                    THEN w.session.countdown - 1 ELSE NoCount)

\* page.tsx lines 636-645: the interval callback of interval id.  The
\* updater runs on the countdown the page holds now; the handleCapture it
\* calls is of the render startCountdown ran in, where the camera was active.
CountdownTick(w, id, hasContext) ==
    IF w.mounted # "session" THEN w
    ELSE IF w.session.countdown = 1
    THEN SetSession(
            handleCapture([w EXCEPT !.timers.countdown = @ \ {id}],
                          [isCameraActive |-> TRUE], hasContext),
            "countdown", NoCount)
    ELSE SetSession(w, "countdown",
                    IF w.session.countdown # NoCount
                    THEN w.session.countdown - 1 ELSE NoCount)

\* handleCancelCountdown without clearInterval.
handleCancelCountdown_KeepsInterval(w) ==
    SetSession(SetSession(SetRef(w, "countdownRef", 0), "countdown", NoCount),
               "isCapturing", FALSE)

\* page.tsx lines 789-796.
handleCancelCountdown(w) ==
    LET a == IF w.refs.countdownRef # 0
             THEN [SetRef(w, "countdownRef", 0) EXCEPT
                      !.timers.countdown = @ \ {w.refs.countdownRef}]
             ELSE w
    IN  SetSession(SetSession(a, "countdown", NoCount), "isCapturing", FALSE)

\* The state setters handleRetake and toggleMode share: page.tsx lines
\* 755-762 and 809-816.
ResetCapture(w) ==
    [w EXCEPT !.session =
        [@ EXCEPT !.captured = NoPhoto, !.isCapturing = FALSE,
                  !.countdown = NoCount, !.uploadError = NoText,
                  !.tempImage = NoPhoto, !.isCropping = FALSE,
                  !.cropStart = NoPoint, !.cropEnd = NoPoint]]

\* page.tsx lines 752-774: the timeout it sets keeps the closure of the
\* render the click was handled in.
handleRetake(w) ==
    [SetRef(ResetCapture(w), "hasInitializedRef", FALSE) EXCEPT
        !.timers.retake = @ \cup {Closure(w)}]

\* page.tsx lines 768-773: the callback of that timeout.
RetakeTimeout(w, c) ==
    LET a == [w EXCEPT !.timers.retake = @ \ {c}]
    IN  IF ~c.uploadMode /\ ~c.isCameraActive
        THEN initCamera(SetRef(a, "initAttemptRef", FALSE), c)
        ELSE a

\* page.tsx lines 592-597: the callback of the camera effect's timeout; its
\* closure is the render the effect ran after, which is still the latest.
InitTimeout(w) == initCamera([w EXCEPT !.timers.init = FALSE], Closure(w))

\* toggleMode without setUploadError(null).
toggleMode_KeepsError(w) ==
    LET a == SetRef(SetRef(w, "hasInitializedRef", FALSE), "initAttemptRef", FALSE)
        b == ResetCapture(stopCamera(a))
        c == IF b.refs.countdownRef # 0
             THEN [SetRef(b, "countdownRef", 0) EXCEPT
                      !.timers.countdown = @ \ {b.refs.countdownRef}]
             ELSE b
    IN  [c EXCEPT !.session.uploadMode = ~c.session.uploadMode,
                  !.session.uploadError = w.session.uploadError]

\* page.tsx lines 798-825.
toggleMode(w) ==
    LET a == SetRef(SetRef(w, "hasInitializedRef", FALSE), "initAttemptRef", FALSE)
        b == ResetCapture(stopCamera(a))
        c == IF b.refs.countdownRef # 0
             THEN [SetRef(b, "countdownRef", 0) EXCEPT
                      !.timers.countdown = @ \ {b.refs.countdownRef}]
             ELSE b
    IN  SetSession(c, "uploadMode", ~c.session.uploadMode)

\* page.tsx lines 776-787.  localStorage.setItem stores the string, or
\* throws when the store is full and nothing after it runs.
handleNext(w, stored) ==
    IF ~Truthy(w.session.captured) \/ ~stored THEN w
    ELSE LET n == SessionId(w.route)
             a == [w EXCEPT !.localStorage[SessionKey(n)] = w.session.captured]
         IN  [Unmount(a) EXCEPT
                 !.route = IF n = 1 THEN "/session/2" ELSE "/session/result"]

----------------------------------------------------------------------------
(* SessionPage: uploading and cropping.                                    *)

\* useCamera.ts line 237: the ceiling of the size of an uploaded file.
MaxUploadBytes == 10 * 1024 * 1024

\* "image/"
ImageTypeHead == <<105, 109, 97, 103, 101, 47>>

\* str.startsWith(head)
StartsWith(str, head) ==
    Len(head) <= Len(str) /\ SubSeq(str, 1, Len(head)) = head

\* The files the user can choose: their type (as character codes) and size.
\* "image/png" at the ceiling, "image/jpeg" one byte above it, "text/plain",
\* "imagex/png", and an empty "image/gif".
Files ==
    << [type |-> <<105, 109, 97, 103, 101, 47, 112, 110, 103>>, size |-> MaxUploadBytes],
       [type |-> <<105, 109, 97, 103, 101, 47, 106, 112, 101, 103>>, size |-> MaxUploadBytes + 1],
       [type |-> <<116, 101, 120, 116, 47, 112, 108, 97, 105, 110>>, size |-> 1024],
       [type |-> <<105, 109, 97, 103, 101, 120, 47, 112, 110, 103>>, size |-> 1024],
       [type |-> <<105, 109, 97, 103, 101, 47, 103, 105, 102>>, size |-> 0] >>

\* uploadPhoto without the check of the size.
UploadRejection_NoSizeCheck(file) ==
    IF ~StartsWith(file.type, ImageTypeHead) THEN "Please upload an image file"
    ELSE NoText

\* useCamera.ts lines 232-240: the message uploadPhoto rejects file with at
\* once, or null if it goes on to read the file.
UploadRejection(file) ==
    IF ~StartsWith(file.type, ImageTypeHead) THEN "Please upload an image file"
    ELSE IF file.size > MaxUploadBytes THEN "Image size should be less than 10MB"
    ELSE NoText

\* page.tsx lines 661-673 up to the await, with uploadPhoto up to
\* readAsDataURL (useCamera.ts lines 230-242 and 276); a rejection is caught
\* in the same task.
handleFileUpload(w, f) ==
    LET a == SetSession(w, "uploadError", NoText)
        message == UploadRejection(Files[f])
    IN  IF message # NoText THEN SetSession(a, "uploadError", message)
        ELSE [a EXCEPT !.uploads[f] = "reading"]

\* useCamera.ts lines 244-272: the file is read and its image is decoding.
ReaderOnLoad(w, f) == [w EXCEPT !.uploads[f] = "decoding"]

\* useCamera.ts line 275 and page.tsx lines 670-672.
ReaderOnError(w, f) ==
    SetSession([w EXCEPT !.uploads[f] = "none"], "uploadError", "Failed to read file")

\* useCamera.ts lines 248-271 and page.tsx lines 668-669: the image has
\* decoded, uploadPhoto resolves and handleFileUpload goes on.
UploadResolves(w, f) ==
    SetSession(SetSession([w EXCEPT !.uploads[f] = "none"],
                          "tempImage", UploadPhoto(f)),
               "isCropping", TRUE)

\* page.tsx line 726: the least side of a crop, in pixels of the page.
MinCropSide == 50

\* The corners the pointer can give, within the crop area.
CropPoints == {<<0, 0>>, <<40, 40>>, <<100, 100>>}

Abs(n) == IF n < 0 THEN -n ELSE n

\* page.tsx lines 675-689.
handleCropStart(w, p) ==
    [w EXCEPT !.session = [@ EXCEPT !.isDragging = TRUE, !.cropStart = p, !.cropEnd = p]]

\* page.tsx lines 691-707.
handleCropMove(w, p) ==
    IF ~w.session.isDragging \/ w.session.cropStart = NoPoint THEN w
    ELSE SetSession(w, "cropEnd", p)

\* page.tsx lines 709-711.
handleCropEnd(w) == SetSession(w, "isDragging", FALSE)

\* useCamera.ts lines 280-296.  The image is drawn in the statement after
\* its src is set: it is drawn if the browser has the image of that URL at
\* hand by then (decoded), and nothing is drawn if it has not; either way
\* the canvas is encoded and returned.
cropImage(image, decoded) ==
    IF decoded THEN CropPhoto(image.id) ELSE BlankCrop(image.id)

\* page.tsx lines 713-743.
applyCrop(w, decoded) ==
    LET s == w.session
    IN  IF ~Truthy(s.tempImage) \/ s.cropStart = NoPoint \/ s.cropEnd = NoPoint
        THEN w
        ELSE IF \/ Abs(s.cropEnd[1] - s.cropStart[1]) < MinCropSide
                \/ Abs(s.cropEnd[2] - s.cropStart[2]) < MinCropSide
        THEN SetSession(w, "uploadError", "Please select a larger area")
        ELSE [w EXCEPT !.session =
                 [@ EXCEPT !.captured = cropImage(s.tempImage, decoded),
                           !.isCropping = FALSE, !.tempImage = NoPhoto,
                           !.cropStart = NoPoint, !.cropEnd = NoPoint]]

\* page.tsx lines 745-750.
cancelCrop(w) ==
    [w EXCEPT !.session =
        [@ EXCEPT !.isCropping = FALSE, !.tempImage = NoPhoto,
                  !.cropStart = NoPoint, !.cropEnd = NoPoint]]

----------------------------------------------------------------------------
(* SpecSession: one SessionPage from its mounting to its unmounting, and   *)
(* what the callbacks it has left behind do after that.                    *)

\* The keys of the store the pages use.
StoreKeys == {"session-1", "session-2"}

\* The pages hold the state of w.
Holds(w) ==
    /\ route = w.route
    /\ mounted = w.mounted
    /\ localStorage = w.localStorage
    /\ session = w.session
    /\ refs = w.refs
    /\ camera = w.camera
    /\ video = w.video
    /\ streams = w.streams
    /\ starts = w.starts
    /\ timers = w.timers
    /\ uploads = w.uploads

\* Before any page is mounted: the store holds what earlier visits left.
BlankWorld(store) ==
    [ route |-> "none", mounted |-> "none", localStorage |-> store,
      session |-> FreshSession, refs |-> FreshRefs, camera |-> FreshCamera,
      video |-> NoVideo, streams |-> << >>, starts |-> << >>,
      timers |-> NoTimers, uploads |-> [f \in 1 .. Len(Files) |-> "none"] ]

\* No result page is mounted.
NoResultPage == resultPage = << >> /\ composeCalls = << >>

InitSession ==
    /\ IdleCompose /\ probe = NoProbe /\ NoPair
    /\ NoResultPage
    /\ \E r \in {"/session/1", "/session/2"} :
          Holds(MountSession(BlankWorld([k \in StoreKeys |-> NoPhoto]), r))

\* A step of the session page: the handler has made w of the state, React
\* renders and runs the effects.
Act(w) ==
    /\ Commit(Settle(World, w))
    /\ UNCHANGED <<composeVars, resultPage, composeCalls>>

\* page.tsx lines 904-1059: what the page shows.
Shown == mounted = "session"
PreviewView == Shown /\ Truthy(session.captured)
CameraView == Shown /\ ~Truthy(session.captured) /\ ~session.uploadMode
CropView ==
    /\ Shown /\ ~Truthy(session.captured) /\ session.uploadMode
    /\ session.isCropping /\ Truthy(session.tempImage)
UploadView ==
    /\ Shown /\ ~Truthy(session.captured) /\ session.uploadMode
    /\ ~(session.isCropping /\ Truthy(session.tempImage))

\* page.tsx lines 941-947: the CAPTURE button.
ClickCapture ==
    /\ CameraView /\ session.countdown = NoCount
    /\ ~(session.isCapturing \/ ~camera.isCameraActive \/ camera.isCameraStarting)
    /\ Act(startCountdown(World))

\* page.tsx lines 636-645: the interval fires.
IntervalFires ==
    \E id \in timers.countdown, hasContext \in BOOLEAN :
        Act(CountdownTick(World, id, hasContext))

\* page.tsx lines 933-939: the CANCEL button of the countdown.
ClickCancelCountdown ==
    /\ CameraView /\ session.countdown # NoCount
    /\ Act(handleCancelCountdown(World))

\* page.tsx lines 867-882 and 1024-1029: the two mode buttons, disabled while
\* capturing, cropping or starting, and BACK TO CAMERA.
ClickToggleMode ==
    /\ Shown
    /\ \/ ~(session.isCapturing \/ session.isCropping \/ camera.isCameraStarting)
       \/ UploadView
    /\ Act(toggleMode(World))

\* page.tsx lines 997-1003: the user chooses file f.
ChooseFile(f) ==
    /\ UploadView /\ uploads[f] = "none"
    /\ Act(handleFileUpload(World, f))

FileRead(f) == uploads[f] = "reading" /\ Act(ReaderOnLoad(World, f))
FileReadFails(f) == uploads[f] = "reading" /\ Act(ReaderOnError(World, f))
ImageDecoded(f) == uploads[f] = "decoding" /\ Act(UploadResolves(World, f))

\* page.tsx lines 954-963 and 976-990: the crop area and its buttons.
PointerDown(p) == CropView /\ Act(handleCropStart(World, p))
PointerMove(p) == CropView /\ Act(handleCropMove(World, p))
PointerUp == CropView /\ Act(handleCropEnd(World))
ClickApplyCrop ==
    /\ CropView /\ session.cropStart # NoPoint /\ session.cropEnd # NoPoint
    /\ \E decoded \in BOOLEAN : Act(applyCrop(World, decoded))
ClickCancelCrop == CropView /\ Act(cancelCrop(World))

\* page.tsx lines 1044-1055: the buttons of the preview.
ClickRetake == PreviewView /\ Act(handleRetake(World))
ClickNext == PreviewView /\ \E stored \in BOOLEAN : Act(handleNext(World, stored))

\* The router takes the user elsewhere (back, forward, a link): the page is
\* unmounted.
LeavePage == Shown /\ Act([Unmount(World) EXCEPT !.route = "/"])

\* The timeouts of the camera effect and of handleRetake fire.
InitTimerFires ==
    /\ timers.init /\ Len(starts) < MaxStarts
    /\ Act(InitTimeout(World))
RetakeTimerFires ==
    \E c \in timers.retake :
        /\ Len(starts) < MaxStarts
        /\ Act(RetakeTimeout(World, c))

\* useCamera.ts lines 89-98: the 100 ms are over and getUserMedia is called.
DelayDone(i) ==
    /\ starts[i].pc = "delay"
    /\ Act([World EXCEPT !.starts[i].pc = "gum", !.starts[i].requested = TRUE])

\* getUserMedia resolves with a new stream, or rejects.
GetUserMediaResolves(i) ==
    starts[i].pc = "gum" /\ Act(AfterGetUserMedia(World, i))
GetUserMediaRejects(i) ==
    starts[i].pc = "gum" /\ Act(StartCatch(World, i))

\* useCamera.ts lines 119-138: loadedmetadata reaches the handler of call i;
\* or its 5 s run out, or the element reports an error.
MetadataLoaded(i) ==
    /\ starts[i].pc = "metadata" /\ starts[i].attached # "none"
    /\ Act(AfterMetadata(World, i))
MetadataFails(i) ==
    starts[i].pc = "metadata" /\ Act(StartCatch(World, i))

\* useCamera.ts lines 145-150: play() resolves or rejects.
PlayResolves(i) == starts[i].pc = "play" /\ Act(AfterPlay(World, i))
PlayRejects(i) == starts[i].pc = "play" /\ Act(StartCatch(World, i))

NextSession ==
    \/ ClickCapture
    \/ IntervalFires
    \/ ClickCancelCountdown
    \/ ClickToggleMode
    \/ \E f \in 1 .. Len(Files) : ChooseFile(f)
    \/ \E f \in 1 .. Len(Files) : FileRead(f)
    \/ \E f \in 1 .. Len(Files) : FileReadFails(f)
    \/ \E f \in 1 .. Len(Files) : ImageDecoded(f)
    \/ \E p \in CropPoints : PointerDown(p)
    \/ \E p \in CropPoints : PointerMove(p)
    \/ PointerUp
    \/ ClickApplyCrop
    \/ ClickCancelCrop
    \/ ClickRetake
    \/ ClickNext
    \/ LeavePage
    \/ InitTimerFires
    \/ RetakeTimerFires
    \/ \E i \in 1 .. Len(starts) : DelayDone(i)
    \/ \E i \in 1 .. Len(starts) : GetUserMediaResolves(i)
    \/ \E i \in 1 .. Len(starts) : GetUserMediaRejects(i)
    \/ \E i \in 1 .. Len(starts) : MetadataLoaded(i)
    \/ \E i \in 1 .. Len(starts) : MetadataFails(i)
    \/ \E i \in 1 .. Len(starts) : PlayResolves(i)
    \/ \E i \in 1 .. Len(starts) : PlayRejects(i)

SpecSession == InitSession /\ [][NextSession]_vars

----------------------------------------------------------------------------
(* Properties of the pages.                                                *)

\* The type of file starts with "image/" and file has 10 * 1024 * 1024 bytes
\* at most.
IsImageFile(file) ==
    /\ IsPrefix(<<105, 109, 97, 103, 101, 47>>, file.type)
    /\ file.size <= 10485760

\* C21: a captured photo that came by the upload path (a crop), and the
\* image being cropped, are of a file whose type starts with "image/" and
\* whose size is at most 10 * 1024 * 1024 bytes; when the user chooses any
\* other file the upload is rejected at once, uploadError becomes the
\* message of the rejection, and tempImage, isCropping and captured stay as
\* they were.
C21_UploadIsValidated ==
    /\ [](/\ session.captured.src \in {"crop", "blank"} =>
                IsImageFile(Files[session.captured.id])
          /\ session.tempImage.src = "upload" => IsImageFile(Files[session.tempImage.id]))
    /\ [][\A f \in 1 .. Len(Files) :
            (~IsImageFile(Files[f]) /\ ChooseFile(f)) =>
                /\ uploads'[f] = "none"
                /\ session'.uploadError \in
                      {"Please upload an image file",
                       "Image size should be less than 10MB"}
                /\ session'.tempImage = session.tempImage
                /\ session'.isCropping = session.isCropping
                /\ session'.captured = session.captured]_vars

\* A crop of an uploaded image file is captured, after another file was
\* rejected for its type.
C21_Witness ==
    /\ session.captured.src = "crop"
    /\ session.uploadError = "Please upload an image file"

----------------------------------------------------------------------------
(* ResultPage (src/unnamed/part_001).                                      *)

\* part_001 lines 10-12: the values a freshly mounted ResultPage holds, with
\* its two timeouts: redirect is whether the timeout of line 23 is pending,
\* generate is whether the timeout of line 49 is pending, and photo1 and
\* photo2 are what the effect has read from the store (its closure).
FreshResultPage ==
    [ result |-> NoPhoto, isGenerating |-> TRUE, error |-> NoText,
      redirect |-> FALSE, generate |-> FALSE,
      photo1 |-> NoPhoto, photo2 |-> NoPhoto ]

\* The data URL composeNewspaper resolves with.
Newspaper == [src |-> "newspaper", id |-> 0]

\* The effect of the mounting asking for the first photo only.
ResultEffect_FirstOnly(store) ==
    LET photo1 == store["session-1"]
        photo2 == store["session-2"]
    IN  IF ~Truthy(photo1)
        THEN [FreshResultPage EXCEPT
                 !.error = "Photos not found. Please complete both sessions first.",
                 !.redirect = TRUE]
        ELSE [FreshResultPage EXCEPT
                 !.generate = TRUE, !.photo1 = photo1, !.photo2 = photo2]

\* part_001 lines 14-25 and 48-49: the effect of the mounting.
ResultEffect(store) ==
    LET photo1 == store["session-1"]
        photo2 == store["session-2"]
    IN  IF ~Truthy(photo1) \/ ~Truthy(photo2)
        THEN [FreshResultPage EXCEPT
                 !.error = "Photos not found. Please complete both sessions first.",
                 !.redirect = TRUE]
        ELSE [FreshResultPage EXCEPT
                 !.generate = TRUE, !.photo1 = photo1, !.photo2 = photo2]

\* The router has pushed a route and mounts its page.
MountPage ==
    /\ mounted = "none"
    /\ route \in {"/session/1", "/session/2", "/session/result"}
    /\ IF route = "/session/result"
       THEN /\ mounted' = "result"
            /\ resultPage' = ResultEffect(localStorage)
            /\ composeCalls' = << >>
            /\ UNCHANGED <<route, localStorage, session, refs, camera, video,
                           streams, starts, timers, uploads>>
       ELSE /\ Commit(MountSession(World, route))
            /\ UNCHANGED <<resultPage, composeCalls>>
    /\ UNCHANGED composeVars

\* The timeout of line 49 as an interval: it stays pending after it fired.
GenerateTimerFires_Repeats ==
    /\ resultPage.generate
    /\ resultPage' =
          [resultPage EXCEPT !.isGenerating = IF mounted = "result" THEN TRUE ELSE @]
    /\ composeCalls' =
          Append(composeCalls,
                 [photo1 |-> resultPage.photo1, photo2 |-> resultPage.photo2,
                  state |-> "pending"])
    /\ UNCHANGED <<composeVars, route, mounted, localStorage, session, refs,
                   camera, video, streams, starts, timers, uploads>>

\* part_001 lines 27-36 and 49: the timeout fires and generateNewspaper
\* calls composeNewspaper with the two photos the effect has read.
GenerateTimerFires ==
    /\ resultPage.generate
    /\ resultPage' =
          [resultPage EXCEPT
              !.generate = FALSE,
              !.isGenerating = IF mounted = "result" THEN TRUE ELSE @]
    /\ composeCalls' =
          Append(composeCalls,
                 [photo1 |-> resultPage.photo1, photo2 |-> resultPage.photo2,
                  state |-> "pending"])
    /\ UNCHANGED <<composeVars, route, mounted, localStorage, session, refs,
                   camera, video, streams, starts, timers, uploads>>

\* part_001 lines 38-39 and 43-45: composeNewspaper has resolved.
ComposeResolves(k) ==
    /\ composeCalls[k].state = "pending"
    /\ composeCalls' = [composeCalls EXCEPT ![k].state = "resolved"]
    /\ resultPage' =
          IF mounted = "result"
          THEN [resultPage EXCEPT !.result = Newspaper, !.isGenerating = FALSE]
          ELSE resultPage
    /\ UNCHANGED <<composeVars, route, mounted, localStorage, session, refs,
                   camera, video, streams, starts, timers, uploads>>

\* part_001 lines 40-45: composeNewspaper has rejected.
ComposeRejects(k) ==
    /\ composeCalls[k].state = "pending"
    /\ composeCalls' = [composeCalls EXCEPT ![k].state = "rejected"]
    /\ resultPage' =
          IF mounted = "result"
          THEN [resultPage EXCEPT
                   !.error = "Failed to generate newspaper. Please try again.",
                   !.isGenerating = FALSE]
          ELSE resultPage
    /\ UNCHANGED <<composeVars, route, mounted, localStorage, session, refs,
                   camera, video, streams, starts, timers, uploads>>

\* part_001 line 23: the timeout of the redirect fires.
RedirectFires ==
    /\ resultPage.redirect
    /\ resultPage' = [resultPage EXCEPT !.redirect = FALSE]
    /\ route' = "/session/1"
    /\ mounted' = "none"
    /\ UNCHANGED <<composeVars, localStorage, session, refs, camera, video,
                   streams, starts, timers, uploads, composeCalls>>

\* part_001 lines 89-105 and 131-206: what the page shows.  The error view
\* has no button; NEW SESSION is under the newspaper and START OVER is shown
\* when there is neither a newspaper nor an error.
ErrorView == mounted = "result" /\ resultPage.error # NoText
NewSessionButton ==
    /\ mounted = "result" /\ resultPage.error = NoText
    /\ ~resultPage.isGenerating /\ Truthy(resultPage.result)
StartOverButton ==
    /\ mounted = "result" /\ resultPage.error = NoText
    /\ ~resultPage.isGenerating /\ ~Truthy(resultPage.result)

\* part_001 lines 61-65: handleNewSession, by either button.
ClickNewSession ==
    /\ NewSessionButton \/ StartOverButton
    /\ localStorage' = [k \in StoreKeys |-> NoPhoto]
    /\ route' = "/session/1"
    /\ mounted' = "none"
    /\ UNCHANGED <<composeVars, session, refs, camera, video, streams, starts,
                   timers, uploads, resultPage, composeCalls>>

----------------------------------------------------------------------------
(* SpecFlow: the flow over the pages.  What the session page does to get a *)
(* photo is one step here; SpecSession has it in full.                     *)

\* What an earlier visit can have left under a key: nothing, "", a photo.
StoredValues == {NoPhoto, EmptyText, StoredPhoto(1)}

\* The photos a session can capture.
FlowPhotos == {CameraPhoto(1), CropPhoto(1)}

InitFlow ==
    /\ IdleCompose /\ probe = NoProbe /\ NoPair
    /\ resultPage = FreshResultPage /\ composeCalls = << >>
    /\ \E r \in {"/session/1", "/session/2", "/session/result"} :
       \E store \in [StoreKeys -> StoredValues] :
          Holds([BlankWorld(store) EXCEPT !.route = r])

\* page.tsx lines 654-657 and 731-738: the camera or a cropped upload gives
\* the session page its captured photo.
FlowCapture ==
    /\ Shown /\ ~Truthy(session.captured)
    /\ \E photo \in FlowPhotos : Act(SetSession(World, "captured", photo))

NextFlow ==
    \/ MountPage
    \/ FlowCapture
    \/ ClickNext
    \/ GenerateTimerFires
    \/ \E k \in 1 .. Len(composeCalls) : ComposeResolves(k)
    \/ \E k \in 1 .. Len(composeCalls) : ComposeRejects(k)
    \/ RedirectFires
    \/ ClickNewSession

SpecFlow == InitFlow /\ [][NextFlow]_vars

\* A reference is missing from the store under one of the two keys.
PhotoMissing ==
    \/ localStorage["session-1"].src \in {"null", "empty"}
    \/ localStorage["session-2"].src \in {"null", "empty"}

\* C22: whenever composeNewspaper is called, the store holds a non-empty
\* value under session-1 and under session-2 and the call's two photos are
\* those values; the session page leaves its route only with a photo
\* captured, which is then in the store under the key of its session, to
\* /session/2 from session 1 and to the result page from session 2;
\* handleNext changes nothing while nothing is captured; and while the
\* result page is mounted with a photo missing it shows an error, has called
\* nothing, has its redirect pending, and leaves to /session/1 only.
C22_ComposeGetsStoredPhotos ==
    /\ [][Len(composeCalls') > Len(composeCalls) =>
            /\ ~PhotoMissing
            /\ composeCalls'[Len(composeCalls')].photo1 = localStorage["session-1"]
            /\ composeCalls'[Len(composeCalls')].photo2 = localStorage["session-2"]]_vars
    /\ [][(mounted = "session" /\ route' # route) =>
            /\ session.captured.src \notin {"null", "empty"}
            /\ route = "/session/1" =>
                  /\ localStorage'["session-1"] = session.captured
                  /\ route' = "/session/2"
            /\ route = "/session/2" =>
                  /\ localStorage'["session-2"] = session.captured
                  /\ route' = "/session/result"]_vars
    /\ []((mounted = "session" /\ session.captured = NoPhoto) =>
            \A stored \in BOOLEAN : handleNext(World, stored) = World)
    /\ []((mounted = "result" /\ PhotoMissing) =>
            /\ resultPage.error = "Photos not found. Please complete both sessions first."
            /\ composeCalls = << >>
            /\ ~resultPage.generate
            /\ resultPage.redirect)
    /\ [][(mounted = "result" /\ PhotoMissing /\ route' # route) =>
            route' = "/session/1"]_vars

\* The result page has called composeNewspaper with the photo session 1 has
\* stored and the photo session 2 has stored.
C22_Witness ==
    /\ mounted = "result"
    /\ Len(composeCalls) = 1
    /\ composeCalls[1].photo1 = CameraPhoto(1)
    /\ composeCalls[1].photo2 = CropPhoto(1)
    /\ localStorage["session-1"] = CameraPhoto(1)
    /\ localStorage["session-2"] = CropPhoto(1)

\* C23: once composeNewspaper has rejected on the mounted result page, the
\* user is offered a way on: the redirect to the start is pending, or the
\* NEW SESSION or START OVER button is shown.
C23_RetryIsOffered ==
    (mounted = "result" /\ \E k \in 1 .. Len(composeCalls) :
                              composeCalls[k].state = "rejected") =>
        \/ resultPage.redirect
        \/ NewSessionButton
        \/ StartOverButton

\* A call of composeNewspaper by the result page has not settled yet.
ComposeInFlight ==
    \E k \in 1 .. Len(composeCalls) : composeCalls[k].state = "pending"

\* C24: a mounted result page has called composeNewspaper once at most; no
\* call is made while another has not settled; and no call of an earlier
\* mounting is unsettled when the result page is mounted.
C24_ComposeOncePerMount ==
    /\ [](Len(composeCalls) <= 1)
    /\ [][Len(composeCalls') > Len(composeCalls) => ~ComposeInFlight]_vars
    /\ [][(mounted # "result" /\ mounted' = "result") => ~ComposeInFlight]_vars

\* The one call of this mounting is in flight.
C24_Witness ==
    /\ mounted = "result"
    /\ Len(composeCalls) = 1
    /\ composeCalls[1].state = "pending"
    /\ resultPage.isGenerating

\* The calls of startCamera that have not returned, and those of them that
\* wait for getUserMedia.
StartsInFlight == {i \in 1 .. Len(starts) : starts[i].pc # "returned"}
StreamRequests == {i \in 1 .. Len(starts) : starts[i].pc = "gum"}

\* Call i has returned false without having called getUserMedia.
Refused(q, i) ==
    q[i].pc = "returned" /\ q[i].value = "false" /\ ~q[i].requested

\* C25: at most one call of startCamera is in progress and at most one
\* getUserMedia request is outstanding; a call made while another is in
\* progress returns false without requesting a stream, and so would a call
\* made then by any callback of the latest render.
C25_OneStartAtATime ==
    /\ [](Cardinality(StartsInFlight) <= 1 /\ Cardinality(StreamRequests) <= 1)
    /\ [][(Len(starts') > Len(starts) /\ StartsInFlight # {}) =>
            /\ Refused(starts', Len(starts'))
            /\ streams' = streams]_vars
    /\ []((mounted = "session" /\ StartsInFlight # {}) =>
            LET after == startCamera(World, Closure(World))
            IN  /\ Refused(after.starts, Len(after.starts))
                /\ after.streams = streams
                /\ after.refs = refs)

\* A second start waits for its stream while the timeout of an earlier
\* RETAKE is still pending and the mode has been toggled twice.
C25_Witness ==
    /\ mounted = "session"
    /\ Len(starts) = 2
    /\ starts[1].value = "true"
    /\ starts[2].pc = "gum"
    /\ timers.retake # {}

\* C26: when the page was unmounted while a call of startCamera waited for
\* its stream or for the metadata of the video, then once that call has
\* returned the stream it obtained is stopped, isCameraActive is false, and
\* no stream is live or held by the hook.
C26_UnmountReleasesStream ==
    \A i \in 1 .. Len(starts) :
        (starts[i].left \in {"gum", "metadata"} /\ starts[i].pc = "returned") =>
            /\ starts[i].stream # 0 => streams[starts[i].stream] = "stopped"
            /\ ~camera.isCameraActive
            /\ refs.streamRef = 0
            /\ \A s \in 1 .. Len(streams) : streams[s] = "stopped"

\* C27: when getUserMedia rejects, the metadata of the video fails to come
\* (time-out or error) or play() rejects, the call of startCamera returns
\* false, the stream it had obtained is stopped, the hook holds no stream and
\* the start-attempt flag is down; on a mounted page the error message is
\* set, isCameraActive and isCameraStarting are false, and a call of
\* startCamera made next is not refused.
C27_FailedStartCleansUp ==
    [][\A i \in 1 .. Len(starts) :
          (GetUserMediaRejects(i) \/ MetadataFails(i) \/ PlayRejects(i)) =>
              /\ starts'[i].pc = "returned"
              /\ starts'[i].value = "false"
              /\ starts[i].stream # 0 => streams'[starts[i].stream] = "stopped"
              /\ refs'.streamRef = 0
              /\ ~refs'.startAttemptRef
              /\ mounted = "session" =>
                    /\ camera'.error = "Camera access denied. Please use upload option."
                    /\ ~camera'.isCameraActive
                    /\ ~camera'.isCameraStarting
                    /\ LET after == startCamera(World', Closure(World'))
                       IN  after.starts[Len(after.starts)].pc = "delay"]_vars

\* A start that had its stream has failed, the stream is stopped, and the
\* next start is under way.
C27_Witness ==
    /\ mounted = "session"
    /\ Len(starts) = 2
    /\ starts[1].value = "false"
    /\ starts[1].stream = 1
    /\ streams[1] = "stopped"
    /\ starts[2].pc = "gum"
    /\ camera.isCameraStarting

\* No stream that was handed out is live.
NoLiveStream == \A s \in 1 .. Len(streams) : streams[s] = "stopped"

\* C28: while the mounted session page is in upload mode the camera is
\* released and stays so: isCameraActive is false, no stream is live or held,
\* no call of startCamera is in progress and the effect's timeout is not
\* pending.
C28_UploadModeReleasesCamera ==
    (mounted = "session" /\ session.uploadMode) =>
        /\ ~camera.isCameraActive
        /\ NoLiveStream
        /\ refs.streamRef = 0
        /\ StartsInFlight = {}
        /\ ~timers.init

\* The page is in upload mode after its camera had been started, a photo
\* taken and RETAKE clicked: the stream is stopped.
C28_Witness ==
    /\ mounted = "session"
    /\ session.uploadMode
    /\ Len(starts) = 1
    /\ starts[1].value = "true"
    /\ streams = <<"stopped">>
    /\ timers.retake # {}

\* C29: a click on a mode button leaves captured, tempImage, cropStart,
\* cropEnd, countdown and uploadError null and isCropping and isCapturing
\* false, no countdown interval running, the camera stopped (not active, no
\* stream live or held), and uploadMode the opposite of what it was.
C29_ToggleModeResets ==
    [][ClickToggleMode =>
          /\ session'.captured = NoPhoto
          /\ session'.tempImage = NoPhoto
          /\ session'.cropStart = NoPoint
          /\ session'.cropEnd = NoPoint
          /\ session'.countdown = NoCount
          /\ session'.uploadError = NoText
          /\ ~session'.isCropping
          /\ ~session'.isCapturing
          /\ timers'.countdown = {}
          /\ refs'.countdownRef = 0
          /\ ~camera'.isCameraActive
          /\ refs'.streamRef = 0
          /\ \A s \in 1 .. Len(streams') : streams'[s] = "stopped"
          /\ session'.uploadMode = ~session.uploadMode]_vars

\* Back in camera mode, with the reading of a file chosen in upload mode
\* still going on and the camera about to be started again.
C29_Witness ==
    /\ mounted = "session"
    /\ ~session.uploadMode
    /\ uploads[1] = "reading"
    /\ session.uploadError = NoText
    /\ streams = <<"stopped">>
    /\ timers.init

----------------------------------------------------------------------------
(* The sizes of capturePhoto.  useCamera.ts lines 194-212 are evaluated in *)
(* binary64 and the canvas keeps the integer part of what it is given.  A  *)
(* positive double is held as a mantissa m, 2^52 <= m < 2^53, and an       *)
(* exponent e: its value is m * 2^e.  The mantissa, and the wider integers *)
(* met on the way, are three limbs of 28 bits, lowest first.               *)

Limb28 == 2 ^ 28
BigZero == <<0, 0, 0>>
BigOne == <<1, 0, 0>>
Two52 == <<0, 2 ^ 24, 0>>
Two53 == <<0, 2 ^ 25, 0>>
Two54 == <<0, 2 ^ 26, 0>>

BigAdd(a, b) ==
    LET s0 == a[1] + b[1]
        s1 == a[2] + b[2] + s0 \div Limb28
    IN  <<s0 % Limb28, s1 % Limb28, a[3] + b[3] + s1 \div Limb28>>

\* a - b, for a >= b
BigSub(a, b) ==
    LET d0 == a[1] - b[1]
        d1 == a[2] - b[2] - (IF d0 < 0 THEN 1 ELSE 0)
    IN  <<d0 % Limb28, d1 % Limb28, a[3] - b[3] - (IF d1 < 0 THEN 1 ELSE 0)>>

BigGeq(a, b) ==
    IF a[3] # b[3] THEN a[3] > b[3]
    ELSE IF a[2] # b[2] THEN a[2] > b[2]
    ELSE a[1] >= b[1]

BigDouble(a) == BigAdd(a, a)
BigOdd(a) == a[1] % 2 = 1

\* The number of bits of an integer n, 0 <= n < 2^30, and of a.
IntBitLength(n) == CHOOSE k \in 0..30 : 2 ^ k > n /\ (k = 0 \/ 2 ^ (k - 1) <= n)
BigBitLength(a) ==
    IF a[3] > 0 THEN 2 * 28 + IntBitLength(a[3])
    ELSE IF a[2] > 0 THEN 28 + IntBitLength(a[2])
    ELSE IntBitLength(a[1])

\* a with its d lowest bits dropped, 0 <= d, and whether one of them was set.
BigShiftRight(a, d) ==
    LET whole == d \div 28
        rest == IF whole = 0 THEN a
             ELSE IF whole = 1 THEN <<a[2], a[3], 0>>
             ELSE IF whole = 2 THEN <<a[3], 0, 0>> ELSE BigZero
        k == 2 ^ (d % 28)
        up == Limb28 \div k
    IN  <<rest[1] \div k + (rest[2] % k) * up, rest[2] \div k + (rest[3] % k) * up,
          rest[3] \div k>>
BigLowBits(a, d) ==
    LET whole == d \div 28
        k == 2 ^ (d % 28)
    IN  IF whole = 0 THEN <<a[1] % k, 0, 0>>
        ELSE IF whole = 1 THEN <<a[1], a[2] % k, 0>>
        ELSE IF whole = 2 THEN <<a[1], a[2], a[3] % k>> ELSE a

RECURSIVE BigMulInt(_, _)
\* a * k, for an integer k >= 0
BigMulInt(a, k) ==
    IF k = 0 THEN BigZero
    ELSE LET h == BigDouble(BigMulInt(a, k \div 2))
         IN  IF k % 2 = 1 THEN BigAdd(h, a) ELSE h

FlZero == [m |-> BigZero, e |-> 0]

\* Rounding of m * 2^e, m >= 2^52, to binary64 (to nearest, ties to even),
\* where sticky tells that the exact value is a little above m * 2^e.
RoundTo53(m, e, sticky) ==
    LET d == BigBitLength(m) - 53
        kept == BigShiftRight(m, d)
        low == BigLowBits(m, d)
        guard == d > 0 /\ BigShiftRight(low, d - 1) = BigOne
        rest == sticky \/ (d > 1 /\ BigLowBits(low, d - 1) # BigZero)
        r == IF guard /\ (rest \/ BigOdd(kept)) THEN BigAdd(kept, BigOne) ELSE kept
    IN  IF r = Two53 THEN [m |-> Two52, e |-> e + d + 1] ELSE [m |-> r, e |-> e + d]

\* The double of an integer n, 0 <= n < 2^28.
FlFromInt(n) ==
    LET s == 53 - IntBitLength(n)
    IN  IF n = 0 THEN FlZero
        ELSE [m |-> IF s >= 28 THEN <<0, n * 2 ^ (s - 28), 0>>
                    ELSE <<(n % 2 ^ (28 - s)) * 2 ^ s,
                           n \div 2 ^ (28 - s), 0>>,
              e |-> -s]

\* a * k in binary64, for a double a and an integer k, 0 <= k < 2^27.
FlMulInt(a, k) ==
    IF k = 0 \/ a.m = BigZero THEN FlZero
    ELSE RoundTo53(BigMulInt(a.m, k), a.e, FALSE)

\* One more bit of the quotient s.q of a long division by d with remainder
\* s.r, until the quotient has 55 bits.
DivStep(s, d) ==
    LET r2 == BigDouble(s.r)
        bit == BigGeq(r2, d)
    IN  IF BigGeq(s.q, Two54) THEN s
        ELSE [r |-> IF bit THEN BigSub(r2, d) ELSE r2,
              q |-> BigAdd(BigDouble(s.q), IF bit THEN BigOne ELSE BigZero)]

RECURSIVE DivBits(_, _)
DivBits(s, d) ==
    IF BigGeq(s.q, Two54) THEN s
    ELSE DivBits(DivStep(DivStep(DivStep(DivStep(s, d), d), d), d), d)

\* a / b in binary64, for doubles a, b > 0: 55 bits of the quotient of the
\* mantissas, which is between 1/2 and 2, rounded.
FlDiv(a, b) ==
    LET first == BigGeq(a.m, b.m)
        res == DivBits([r |-> IF first THEN BigSub(a.m, b.m) ELSE a.m,
                        q |-> IF first THEN BigOne ELSE BigZero], b.m)
    IN  RoundTo53(res.q, a.e - b.e - (IF first THEN 54 ELSE 55), res.r # BigZero)

\* The integer part of a double a, 0 <= a < 2^28 (what assigning a to
\* canvas.width keeps), and whether a > n for an integer n.
FlFloor(a) == BigShiftRight(a.m, -a.e)[1]
FlGreaterInt(a, n) ==
    FlFloor(a) > n \/ (FlFloor(a) = n /\ BigLowBits(a.m, -a.e) # BigZero)

\* useCamera.ts lines 198-199.
maxWidth == 800
maxHeight == 600

\* Lines 194-204 alone: the height is not clamped.
CaptureSize_NoHeightClamp(videoWidth, videoHeight) ==
    LET wide == videoWidth > maxWidth
        height1 == IF wide
                   THEN FlMulInt(FlDiv(FlFromInt(maxWidth), FlFromInt(videoWidth)),
                                 videoHeight)
                   ELSE FlFromInt(videoHeight)
    IN  [width |-> IF wide THEN maxWidth ELSE videoWidth, height |-> FlFloor(height1)]

\* useCamera.ts lines 194-212: the size the canvas gets for a video of
\* videoWidth x videoHeight.
CaptureSize(videoWidth, videoHeight) ==
    LET wide == videoWidth > maxWidth
        height1 == IF wide
                   THEN FlMulInt(FlDiv(FlFromInt(maxWidth), FlFromInt(videoWidth)),
                                 videoHeight)
                   ELSE FlFromInt(videoHeight)
        width1 == IF wide THEN maxWidth ELSE videoWidth
        tall == FlGreaterInt(height1, maxHeight)
        width2 == IF tall
                  THEN FlMulInt(FlDiv(FlFromInt(maxHeight), height1), width1)
                  ELSE FlFromInt(width1)
        height2 == IF tall THEN FlFromInt(maxHeight) ELSE height1
    IN  [width |-> FlFloor(width2), height |-> FlFloor(height2)]

\* What capturePhoto returns: null, or the encoding of a canvas of a size (an
\* empty canvas is encoded as "data:,", which is not null).
NoFrame == [isNull |-> TRUE, width |-> 0, height |-> 0]

\* useCamera.ts lines 183-228 with the sizes, for given elements, camera
\* state and video size.
capturePhotoFrame(p) ==
    IF ~p.videoRef \/ ~p.isCameraActive \/ ~p.canvasRef THEN NoFrame
    ELSE IF ~p.context THEN NoFrame
    ELSE LET size == CaptureSize(p.videoWidth, p.videoHeight)
         IN  [isNull |-> FALSE, width |-> size.width, height |-> size.height]

\* The sides a video is given: none, tiny, the usual camera sizes, the
\* limits and their neighbours, sizes at which the rounding of binary64
\* shows, and the largest.
VideoSides ==
    {0, 1, 22, 333, 480, 600, 601, 640, 720, 800, 801, 880, 1001, 1080, 1131,
     1280, 1508, 1920} \cup {MaxVideoSide}

CaptureInputs ==
    [ fn : {"capturePhoto"}, done : {FALSE}, videoRef : BOOLEAN,
      canvasRef : BOOLEAN, isCameraActive : BOOLEAN, context : BOOLEAN,
      videoWidth : VideoSides, videoHeight : VideoSides ]

InitCapture == IdleCompose /\ probe \in CaptureInputs /\ NoPair /\ IdleApp

\* One call of capturePhoto.
ApplyCapture ==
    /\ probe.fn = "capturePhoto"
    /\ ~probe.done
    /\ probe' = [ fn |-> "capturePhoto", done |-> TRUE, videoRef |-> probe.videoRef,
                  canvasRef |-> probe.canvasRef,
                  isCameraActive |-> probe.isCameraActive,
                  context |-> probe.context, videoWidth |-> probe.videoWidth,
                  videoHeight |-> probe.videoHeight,
                  out |-> capturePhotoFrame(probe) ]
    /\ UNCHANGED <<pc, loads, all, ctx, grainLeft, grainHits, ops, outcome, calls, heap, appVars>>

NextCapture == ApplyCapture

SpecCapture == InitCapture /\ [][NextCapture]_vars

\* A call of capturePhoto has returned.
Captured == probe.fn = "capturePhoto" /\ probe.done

\* The call had no active camera or lacked an element.
CaptureRefused == ~probe.isCameraActive \/ ~probe.videoRef \/ ~probe.canvasRef

\* The video is within 800 x 600 and is not scaled.
FitsCanvas == probe.videoWidth <= maxWidth /\ probe.videoHeight <= maxHeight

\* The exact scale is ScaleNum / ScaleDen: 800 / videoWidth when the width
\* is the side that binds, else 600 / videoHeight.
WidthBinds == maxHeight * probe.videoWidth >= maxWidth * probe.videoHeight
ScaleNum == IF FitsCanvas THEN 1 ELSE IF WidthBinds THEN maxWidth ELSE maxHeight
ScaleDen ==
    IF FitsCanvas THEN 1 ELSE IF WidthBinds THEN probe.videoWidth ELSE probe.videoHeight

\* side is the integer the exactly scaled videoSide is cut to, or one less.
WithinOnePixel(side, videoSide) ==
    /\ side * ScaleDen <= ScaleNum * videoSide
    /\ ScaleNum * videoSide <= (side + 1) * ScaleDen

\* C30 as stated: capturePhoto returns null whenever the camera is not
\* active or the video or canvas element is missing; otherwise the captured
\* image has width <= 800 and height <= 600 and exactly the aspect ratio of
\* the video, for every video size.
C30_CaptureKeepsAspect ==
    Captured =>
        /\ CaptureRefused => probe.out.isNull
        /\ ~probe.out.isNull =>
              /\ probe.out.width <= maxWidth
              /\ probe.out.height <= maxHeight
              /\ probe.out.width * probe.videoHeight
                    = probe.out.height * probe.videoWidth

\* C30 amended: capturePhoto returns null whenever the camera is not active
\* or the video or canvas element is missing; otherwise the captured image
\* has width <= 800 and height <= 600, a video within 800 x 600 keeps its
\* size, a larger one has width 800 or height 600, and each side is the
\* exactly scaled side of the video cut to an integer or one pixel less:
\* the aspect ratio is kept to within a pixel per side only.
C30_CaptureSize ==
    Captured =>
        /\ CaptureRefused => probe.out.isNull
        /\ ~probe.out.isNull =>
              /\ probe.out.width <= maxWidth
              /\ probe.out.height <= maxHeight
              /\ FitsCanvas => /\ probe.out.width = probe.videoWidth
                               /\ probe.out.height = probe.videoHeight
              /\ ~FitsCanvas => \/ probe.out.width = maxWidth
                                \/ probe.out.height = maxHeight
              /\ WithinOnePixel(probe.out.width, probe.videoWidth)
              /\ WithinOnePixel(probe.out.height, probe.videoHeight)

\* A frame of a 22 x 880 video was captured: the exact width is 15, the
\* double is just below it and the canvas is 14 wide.
C30_Witness ==
    /\ Captured /\ ~probe.out.isNull
    /\ probe.videoWidth = 22 /\ probe.videoHeight = 880
    /\ probe.out.width = 14 /\ probe.out.height = maxHeight

\* A step in which the page calls stopCamera: a mode button, or the cleanup
\* of page.tsx lines 619-628 as the page is left.
StopCameraStep == ClickToggleMode \/ LeavePage \/ (ClickNext /\ mounted' # "session")

\* C31: while the session page is mounted, isCameraActive true means that
\* streamRef holds a stream whose tracks are not stopped; a step that calls
\* stopCamera leaves streamRef null, the stream it held stopped and, on a
\* page still mounted, isCameraActive false; and whenever isCameraActive is
\* false with no call of startCamera in progress, streamRef is null and
\* every stream handed out is stopped.
C31_ActiveMeansStream ==
    /\ []((mounted = "session" /\ camera.isCameraActive) =>
            (refs.streamRef # 0 /\ streams[refs.streamRef] = "live"))
    /\ []((mounted = "session" /\ ~camera.isCameraActive /\ StartsInFlight = {}) =>
            (refs.streamRef = 0 /\ NoLiveStream))
    /\ [][\/ /\ refs'.streamRef = 0
             /\ refs.streamRef # 0 => streams'[refs.streamRef] = "stopped"
             /\ mounted' = "session" => ~camera'.isCameraActive
          \/ ~StopCameraStep]_vars

\* The camera was active with a live stream, the page went to upload mode
\* and the stream is stopped.
C31_Witness ==
    /\ mounted = "session" /\ session.uploadMode /\ ~camera.isCameraActive
    /\ Len(starts) = 1 /\ starts[1].value = "true"
    /\ refs.streamRef = 0 /\ streams = <<"stopped">>

\* The countdown interval fires on the mounted page while the countdown is n.
TickAt(n) == IntervalFires /\ mounted = "session" /\ session.countdown = n

\* C32: a countdown starts only when the page is not capturing and the
\* camera is active, at 3 and with one interval; its ticks show 2, then 1,
\* and the tick at 1 clears the interval, ends the countdown and calls
\* handleCapture, whose photo (a frame of what the video shows, or none) is
\* all that captured can become; while an interval is pending the page is
\* capturing, the CAPTURE button is not usable and there is no second
\* interval, so no second countdown starts and no tick follows the last.
C32_CountdownCapturesOnce ==
    /\ [](/\ Cardinality(timers.countdown) <= 1
          /\ (mounted = "session" /\ timers.countdown # {}) =>
                /\ session.isCapturing
                /\ session.countdown \in 1 .. 3
                /\ timers.countdown = {refs.countdownRef}
                /\ ~ENABLED ClickCapture
          /\ (mounted = "session" /\ session.countdown # NoCount) =>
                timers.countdown # {})
    /\ [][ClickCapture =>
            /\ ~session.isCapturing /\ camera.isCameraActive
            /\ session'.isCapturing /\ session'.countdown = 3
            /\ timers.countdown = {} /\ Cardinality(timers'.countdown) = 1]_vars
    /\ [][(TickAt(3) => session'.countdown = 2 /\ timers'.countdown = timers.countdown)
          /\ (TickAt(2) => session'.countdown = 1 /\ timers'.countdown = timers.countdown)
          /\ ((TickAt(3) \/ TickAt(2)) => session'.captured = session.captured)
          /\ (TickAt(1) =>
                /\ session'.countdown = NoCount
                /\ timers'.countdown = {}
                /\ session'.captured \in {NoPhoto, CameraPhoto(video.srcObject)}
                /\ session'.isCapturing = ~Truthy(session'.captured))]_vars
    /\ [][(session'.captured.src = "camera" /\ session.captured.src # "camera")
            => TickAt(1)]_vars

\* A countdown has run to its end and its photo is shown: the interval is
\* gone, countdownRef still names it.
C32_Witness ==
    /\ mounted = "session" /\ session.captured.src = "camera"
    /\ ~session.isCapturing /\ session.countdown = NoCount
    /\ timers.countdown = {} /\ refs.countdownRef # 0

\* C33: the CANCEL button of the countdown leaves countdown null, isCapturing
\* false, no interval pending and captured null as it was; so does the
\* leaving of the page for its interval, and a mode button finds and leaves
\* none; an interval is pending only on a mounted page that is capturing,
\* only startCountdown makes one, and captured becomes a camera photo only
\* when a pending interval fires: a cancelled countdown captures nothing, and
\* captured stays null until a new countdown is started.
C33_CancelledCountdownIsDead ==
    /\ []((mounted # "session" \/ ~session.isCapturing) => timers.countdown = {})
    /\ [][ClickCancelCountdown =>
            /\ timers.countdown # {}
            /\ session'.countdown = NoCount
            /\ ~session'.isCapturing
            /\ timers'.countdown = {} /\ refs'.countdownRef = 0
            /\ session.captured = NoPhoto /\ session'.captured = NoPhoto]_vars
    /\ [][(timers'.countdown = {} /\ refs'.countdownRef = 0)
            \/ ~(LeavePage \/ ClickToggleMode)]_vars
    /\ [][timers.countdown = {} \/ ~ClickToggleMode]_vars
    /\ [][timers'.countdown \ timers.countdown # {} => ClickCapture]_vars
    /\ [][Truthy(session'.captured) /\ ~Truthy(session.captured) /\ ~session.uploadMode
            => (IntervalFires /\ timers.countdown # {} /\ session.isCapturing)]_vars

\* A photo was taken and given up by RETAKE, a second countdown was started
\* and cancelled: the camera is still the one started first, and countdownRef,
\* which a countdown that runs out leaves set, is null.
C33_Witness ==
    /\ mounted = "session" /\ ~session.uploadMode /\ camera.isCameraActive
    /\ Len(starts) = 1 /\ timers.retake # {}
    /\ refs.countdownRef = 0 /\ timers.countdown = {}
    /\ session.countdown = NoCount /\ ~session.isCapturing
    /\ session.captured = NoPhoto

\* The page is capturing with no countdown shown and no interval pending.
StuckCapturing ==
    /\ mounted = "session" /\ session.isCapturing
    /\ session.countdown = NoCount /\ timers.countdown = {}

\* No step of the page ends that state, short of leaving the page.
StuckCapturingIsFinal ==
    [][StuckCapturing => (StuckCapturing' \/ mounted' # "session")]_vars

\* C34: the session page never stays stuck in the capturing state, also when
\* capturePhoto returns null: it is never capturing with its countdown over
\* and no interval pending, a state that no step but leaving the page ends.
C34_NeverStuckCapturing == ~StuckCapturing

\* C35: in camera mode, whenever isCameraActive is true and the <video>
\* element is rendered, the element shows the stream the hook holds, also
\* after a capture followed by RETAKE; so every photo the camera takes is a
\* frame of a stream.
C35_VideoShowsStream ==
    /\ (mounted = "session" /\ ~session.uploadMode /\ camera.isCameraActive
          /\ video.present) =>
            (video.srcObject # 0 /\ video.srcObject = refs.streamRef)
    /\ session.captured.src = "camera" => session.captured.id # 0

\* C36: the image cropImage returns holds the pixels of the source image
\* inside the crop rectangle, the source being decoded before it is drawn:
\* applyCrop never stores as the captured photo a crop canvas on which the
\* image was not drawn.
C36_CropIsOfDecodedImage == session.captured.src # "blank"

====
